---- MODULE Spec2Model ----
(***************************************************************************)
(* x87 FPU emulation core (vm86/mame/emu/cpu/i386/x87ops.c).               *)
(*                                                                         *)
(* The FPU state is the register file m_x87_reg[8], the status, control    *)
(* and tag words, the SoftFloat globals (rounding mode, exception flags)   *)
(* and the host CPU state the handlers read or write (flags, CR0, operand  *)
(* size, memory).  Each handler is an operator from an FPU state record to *)
(* the FPU state record after the handler, translated statement by         *)
(* statement, and an action that installs the result.                      *)
(*                                                                         *)
(* A floatx80 is [high, low]; low is the 64-bit significand as four 16-bit *)
(* limbs <<w0,w1,w2,w3>>, w3 the most significant (memory word order).     *)
(* The build modelled is a 486-class one (HAS_I386 etc. not defined), so   *)
(* the unmasked-exception test of x87_check_exceptions is compiled in.     *)
(***************************************************************************)
EXTENDS Integers, Sequences, FiniteSets, TLC

VARIABLES
    m_x87_reg,              \* floatx80 m_x87_reg[8], physical order
    m_x87_sw,               \* status word
    m_x87_cw,               \* control word
    m_x87_tw,               \* tag word
    float_rounding_mode,    \* SoftFloat global
    float_exception_flags,  \* SoftFloat global (a set of flag names)
    m_CF, m_ZF, m_PF,       \* host flags
    m_cr0,                  \* m_cr[0]
    m_operand_size,         \* m_operand_size
    mem,                    \* the memory operand area written by stores
    last,                   \* the handler that ran last and how it ended
    nsteps,                 \* number of handlers executed
    bcd,                    \* the operand of the packed-BCD digit loops
    m_opcode_table_x87,     \* m_opcode_table_x87_d8 .. _df, by group
    build_modrm             \* the entries assigned so far by the build loops

vars == <<m_x87_reg, m_x87_sw, m_x87_cw, m_x87_tw, float_rounding_mode,
          float_exception_flags, m_CF, m_ZF, m_PF, m_cr0, m_operand_size,
          mem, last, nsteps, bcd, m_opcode_table_x87, build_modrm>>

(***************************************************************************)
(* Bounds of the model.                                                    *)
(***************************************************************************)
MaxSteps == 2
MaxSti == 1
MaxMant == 255

(***************************************************************************)
(* Bit operations on non-negative integers.                                *)
(***************************************************************************)
RECURSIVE BitAnd(_, _)
\* x & y
BitAnd(x, y) ==
    IF x = 0 \/ y = 0 THEN 0
    ELSE (x % 2) * (y % 2) + 2 * BitAnd(x \div 2, y \div 2)

BitOr(x, y) == x + y - BitAnd(x, y)
BitXor(x, y) == x + y - 2 * BitAnd(x, y)
BitNot16(x) == 65535 - x
BitClear(x, m) == x - BitAnd(x, m)
Pow2(n) == 2 ^ n

(***************************************************************************)
(* Defines (x87ops.c:30-68).                                               *)
(***************************************************************************)
X87_SW_IE == 1
X87_SW_DE == 2
X87_SW_ZE == 4
X87_SW_OE == 8
X87_SW_UE == 16
X87_SW_PE == 32
X87_SW_SF == 64
X87_SW_ES == 128
X87_SW_C0 == 256
X87_SW_C1 == 512
X87_SW_C2 == 1024
X87_SW_TOP_SHIFT == 11
X87_SW_TOP_MASK == 7
X87_SW_C3 == 16384
X87_SW_BUSY == 32768

X87_CW_IM == 1
X87_CW_DM == 2
X87_CW_ZM == 4
X87_CW_OM == 8
X87_CW_UM == 16
X87_CW_PM == 32
X87_CW_PC_SHIFT == 8
X87_CW_PC_MASK == 3
X87_CW_PC_SINGLE == 0
X87_CW_PC_DOUBLE == 2
X87_CW_PC_EXTEND == 3
X87_CW_RC_SHIFT == 10
X87_CW_RC_MASK == 3
X87_CW_RC_NEAREST == 0
X87_CW_RC_DOWN == 1
X87_CW_RC_UP == 2
X87_CW_RC_ZERO == 3

X87_TW_MASK == 3
X87_TW_VALID == 0
X87_TW_ZERO == 1
X87_TW_SPECIAL == 2
X87_TW_EMPTY == 3

CR0_NE == 32
CR0_PE == 1

(***************************************************************************)
(* Constants (x87ops.c:94-107).                                            *)
(***************************************************************************)
FX(h, w3, w2, w1, w0) == [high |-> h, low |-> <<w0, w1, w2, w3>>]

fx80_zero == FX(0, 0, 0, 0, 0)
fx80_one == FX(16383, 32768, 0, 0, 0)
fx80_ninf == FX(65535, 32768, 0, 0, 0)
fx80_inan == FX(65535, 49152, 0, 0, 0)

x87_to_sf_rc ==
    [rc \in 0..3 |->
        CASE rc = 0 -> "float_round_nearest_even"
          [] rc = 1 -> "float_round_down"
          [] rc = 2 -> "float_round_up"
          [] rc = 3 -> "float_round_to_zero"]

(***************************************************************************)
(* SoftFloat helpers (x87ops.c:116-152).  floatx80_is_nan and              *)
(* floatx80_is_signaling_nan are extern: SoftFloat's definitions.          *)
(***************************************************************************)
ExpOf(a) == a.high % 32768
SignOf(a) == a.high \div 32768
\* (bits64)(low << 1) != 0
LowShl1NonZero(low) ==
    low[4] % 32768 # 0 \/ low[3] # 0 \/ low[2] # 0 \/ low[1] # 0
\* low & ~LIT64(0x4000000000000000)
LowClearQuiet(low) == <<low[1], low[2], low[3], BitClear(low[4], 16384)>>

floatx80_is_nan(a) == ExpOf(a) = 32767 /\ LowShl1NonZero(a.low)

floatx80_is_signaling_nan(a) ==
    LET aLow == LowClearQuiet(a.low)
    IN  ExpOf(a) = 32767 /\ LowShl1NonZero(aLow) /\ a.low = aLow

floatx80_is_quiet_nan(a) ==
    LET aLow == LowClearQuiet(a.low)
    IN  ExpOf(a) = 32767 /\ LowShl1NonZero(aLow) /\ a.low # aLow

floatx80_is_zero(fx) == ExpOf(fx) = 0 /\ ~LowShl1NonZero(fx.low)

floatx80_is_inf(fx) == ExpOf(fx) = 32767 /\ ~LowShl1NonZero(fx.low)

floatx80_is_denormal(fx) ==
    ExpOf(fx) = 0 /\ fx.low[4] < 32768 /\ LowShl1NonZero(fx.low)

floatx80_abs(fx) == [fx EXCEPT !.high = fx.high % 32768]

(***************************************************************************)
(* The FPU state record the handlers work on, and the stack macros         *)
(* (x87ops.c:77-82).  ret, chk, trap and fault are per-handler results:    *)
(* the value returned by the last helper, how x87_check_exceptions ended,  *)
(* whether i386_trap(FAULT_MF) was called, and whether a memory read       *)
(* faulted and ended the handler.  ok is FALSE when the handler needed an  *)
(* arithmetic result outside the domain the SoftFloat model computes.  opd *)
(* is the converted memory operand of an arithmetic handler.               *)
(***************************************************************************)
Cur ==
    [reg |-> m_x87_reg, sw |-> m_x87_sw, cw |-> m_x87_cw, tw |-> m_x87_tw,
     rm |-> float_rounding_mode, fl |-> float_exception_flags,
     CF |-> m_CF, ZF |-> m_ZF, PF |-> m_PF,
     cr0 |-> m_cr0, opsize |-> m_operand_size, mem |-> mem,
     ret |-> 1, chk |-> "none", trap |-> FALSE, fault |-> FALSE, ok |-> TRUE,
     opd |-> fx80_zero]

ST_TO_PHYS(s, x) == ((s.sw \div 2048) + x) % 8
ST(s, x) == s.reg[ST_TO_PHYS(s, x)]
X87_TW_FIELD_SHIFT(x) == 2 * x
X87_TAG(s, x) == (s.tw \div Pow2(X87_TW_FIELD_SHIFT(x))) % 4
X87_RC(s) == (s.cw \div 1024) % 4
X87_IS_ST_EMPTY(s, x) == X87_TAG(s, ST_TO_PHYS(s, x)) = X87_TW_EMPTY
SwHas(s, m) == BitAnd(s.sw, m) # 0
CwHas(s, m) == BitAnd(s.cw, m) # 0
SwOr(s, m) == [s EXCEPT !.sw = BitOr(s.sw, m)]
SwClear(s, m) == [s EXCEPT !.sw = BitClear(s.sw, m)]
Raise(s, f) == [s EXCEPT !.fl = s.fl \cup f]

(***************************************************************************)
(* x87 stack handling (x87ops.c:188-275).                                  *)
(***************************************************************************)
\* x87_set_stack_top assigning the TOP field instead of merging it into SW
x87_set_stack_top_assign(s, top) == [s EXCEPT !.sw = top * 2048]

x87_set_stack_top(s, top) ==
    [s EXCEPT !.sw = BitOr(BitClear(s.sw, X87_SW_TOP_MASK * 2048), top * 2048)]

x87_set_tag(s, reg, tag) ==
    [s EXCEPT !.tw = BitOr(BitClear(s.tw, X87_TW_MASK * Pow2(X87_TW_FIELD_SHIFT(reg))),
                           tag * Pow2(X87_TW_FIELD_SHIFT(reg)))]

TagOf(value) ==
    IF floatx80_is_zero(value) THEN X87_TW_ZERO
    ELSE IF floatx80_is_inf(value) \/ floatx80_is_nan(value) THEN X87_TW_SPECIAL
    ELSE X87_TW_VALID

x87_write_stack(s, i, value, update_tag) ==
    IF update_tag
    THEN x87_set_tag([s EXCEPT !.reg[ST_TO_PHYS(s, i)] = value],
                     ST_TO_PHYS(s, i), TagOf(value))
    ELSE [s EXCEPT !.reg[ST_TO_PHYS(s, i)] = value]

\* x87_set_stack_underflow leaving C1 as it is
x87_set_stack_underflow_keep_c1(s) == SwOr(s, X87_SW_IE + X87_SW_SF)

x87_set_stack_underflow(s) ==
    SwOr(SwClear(s, X87_SW_C1), X87_SW_IE + X87_SW_SF)

\* x87_set_stack_overflow without C1
x87_set_stack_overflow_no_c1(s) == SwOr(s, X87_SW_IE + X87_SW_SF)

x87_set_stack_overflow(s) ==
    SwOr(s, X87_SW_C1 + X87_SW_IE + X87_SW_SF)

\* the tail of x87_inc_stack without the tagging of ST(0) as empty
IncTop_keep_tag(s, ret) ==
    [x87_set_stack_top(s, ST_TO_PHYS(s, 1)) EXCEPT !.ret = ret]

\* the tail of x87_inc_stack: tag ST(0) empty, TOP := TOP + 1
IncTop(s, ret) ==
    [x87_set_stack_top(x87_set_tag(s, ST_TO_PHYS(s, 0), X87_TW_EMPTY),
                       ST_TO_PHYS(s, 1)) EXCEPT !.ret = ret]

\* x87_inc_stack tagging ST(0) empty but leaving TOP where it is
x87_inc_stack_keep_top(s) ==
    IF X87_IS_ST_EMPTY(s, 0)
    THEN [x87_set_stack_underflow(s) EXCEPT !.ret = 0]
    ELSE [x87_set_tag(s, ST_TO_PHYS(s, 0), X87_TW_EMPTY) EXCEPT !.ret = 1]

x87_inc_stack(s) ==
    IF X87_IS_ST_EMPTY(s, 0)
    THEN (IF ~CwHas(s, X87_CW_IM)
          THEN [x87_set_stack_underflow(s) EXCEPT !.ret = 0]
          ELSE IncTop(x87_set_stack_underflow(s), 0))
    ELSE IncTop(s, 1)

\* the tail of x87_dec_stack leaving TOP where it is
DecTop_stay(s, ret) == [s EXCEPT !.ret = ret]

\* the tail of x87_dec_stack: TOP := TOP - 1
DecTop(s, ret) == [x87_set_stack_top(s, ST_TO_PHYS(s, 7)) EXCEPT !.ret = ret]

\* x87_dec_stack without the early return for an unmasked exception
x87_dec_stack_always(s) ==
    IF ~X87_IS_ST_EMPTY(s, 7) THEN DecTop(x87_set_stack_overflow(s), 0)
    ELSE DecTop(s, 1)

x87_dec_stack(s) ==
    IF ~X87_IS_ST_EMPTY(s, 7)
    THEN (IF ~CwHas(s, X87_CW_IM)
          THEN [x87_set_stack_overflow(s) EXCEPT !.ret = 0]
          ELSE DecTop(x87_set_stack_overflow(s), 0))
    ELSE DecTop(s, 1)

(***************************************************************************)
(* Exception handling (x87ops.c:284-344).                                  *)
(***************************************************************************)
DrainFlag(s, f, bit) ==
    IF f \in s.fl THEN [SwOr(s, bit) EXCEPT !.fl = s.fl \ {f}] ELSE s

\* if ((m_x87_sw & ~m_x87_cw) & 0x3f) ... return 0; else return 1
CheckUnmasked(s) ==
    IF BitAnd(BitAnd(s.sw, BitNot16(s.cw)), 63) # 0
    THEN [s EXCEPT !.ret = 0, !.chk = "fail",
                   !.trap = (BitAnd(s.cr0, CR0_NE) # 0)]
    ELSE [s EXCEPT !.ret = 1, !.chk = "ok"]

\* x87_check_exceptions reporting success whatever is latched
x87_check_exceptions_always_ok(s) ==
    [s EXCEPT !.ret = 1, !.chk = "ok"]

x87_check_exceptions(s) ==
    CheckUnmasked(
        DrainFlag(DrainFlag(DrainFlag(DrainFlag(s,
            "float_flag_invalid", X87_SW_IE),
            "float_flag_overflow", X87_SW_OE),
            "float_flag_underflow", X87_SW_UE),
            "float_flag_inexact", X87_SW_PE))

\* x87_write_cw without the update of the SoftFloat rounding mode
x87_write_cw_only(s, cw) == [s EXCEPT !.cw = cw]

x87_write_cw(s, cw) ==
    [s EXCEPT !.cw = cw, !.rm = x87_to_sf_rc[(cw \div 1024) % 4]]

\* x87_reset without the clearing of the status word
x87_reset_keep_sw(s) == [x87_write_cw(s, 895) EXCEPT !.tw = 65535]

x87_reset(s) == [x87_write_cw(s, 895) EXCEPT !.sw = 0, !.tw = 65535]

(***************************************************************************)
(* SoftFloat arithmetic (the library behind floatx80_add etc.; not part of *)
(* x87ops.c).  Results are [v, f, ok]: the value, the exception flags      *)
(* raised, and whether the operands are in the domain computed here:       *)
(* NaNs, infinities, zeros, and normal numbers whose significand has at    *)
(* most MaxMant as odd part (so every result is exact).                    *)
(***************************************************************************)
RECURSIVE Tz(_)
Tz(n) == IF n = 0 \/ n % 2 = 1 THEN 0 ELSE 1 + Tz(n \div 2)

RECURSIVE Msb(_)
Msb(n) == IF n <= 1 THEN 0 ELSE 1 + Msb(n \div 2)

OddPart(n) == n \div Pow2(Tz(n))

Neg(a) == [a EXCEPT !.high = BitXor(a.high, 32768)]
WithSign(a, sgn) == [a EXCEPT !.high = sgn * 32768 + ExpOf(a)]
Zero(sgn) == FX(sgn * 32768, 0, 0, 0, 0)
Inf(sgn) == FX(sgn * 32768 + 32767, 32768, 0, 0, 0)
floatx80_default_nan == FX(65535, 49152, 0, 0, 0)

SimpleFin(a) ==
    /\ ExpOf(a) \in 16383 - 64 .. 16383 + 64
    /\ a.low[1] = 0 /\ a.low[2] = 0 /\ a.low[3] = 0
    /\ a.low[4] >= 32768
    /\ OddPart(a.low[4]) <= MaxMant

\* a simple value is (-1)^sign * Mant * 2^Exp2
Mant(a) == OddPart(a.low[4])
Exp2(a) == ExpOf(a) - 16383 - 15 + Tz(a.low[4])

EncodableMag(M, E) ==
    /\ M > 0
    /\ OddPart(M) < 65536
    /\ E + Msb(M) + 16383 \in 1..32766

Encode(sgn, M, E) ==
    LET p == Msb(M)
        top == IF p <= 15 THEN M * Pow2(15 - p) ELSE M \div Pow2(p - 15)
    IN  FX(sgn * 32768 + E + p + 16383, top, 0, 0, 0)

Quiet(a) == [a EXCEPT !.low[4] = BitOr(a.low[4], 49152)]

propagateFloatx80NaN(a, b) ==
    LET aIsNaN == floatx80_is_nan(a)
        aIsSignalingNaN == floatx80_is_signaling_nan(a)
        bIsNaN == floatx80_is_nan(b)
        bIsSignalingNaN == floatx80_is_signaling_nan(b)
    IN  [v |-> IF aIsNaN
               THEN (IF aIsSignalingNaN /\ bIsNaN THEN Quiet(b) ELSE Quiet(a))
               ELSE Quiet(b),
         f |-> IF aIsSignalingNaN \/ bIsSignalingNaN
               THEN {"float_flag_invalid"} ELSE {},
         ok |-> TRUE]

Exact(v) == [v |-> v, f |-> {}, ok |-> TRUE]
Invalid == [v |-> floatx80_default_nan, f |-> {"float_flag_invalid"}, ok |-> TRUE]
OutOfDomain == [v |-> fx80_zero, f |-> {}, ok |-> FALSE]

\* the encoded result, when it is in the domain
EncodeOrOut(sgn, M, E) ==
    IF ~EncodableMag(M, E) THEN OutOfDomain ELSE Exact(Encode(sgn, M, E))

\* the signed significand of a, as a multiple of 2^emin
SignedMant(a, emin) ==
    (IF SignOf(a) = 1 THEN -1 ELSE 1) * Mant(a) * Pow2(Exp2(a) - emin)

AddSum(sum, emin, rm) ==
    IF sum = 0 THEN Exact(Zero(IF rm = "float_round_down" THEN 1 ELSE 0))
    ELSE EncodeOrOut(IF sum < 0 THEN 1 ELSE 0, IF sum < 0 THEN -sum ELSE sum, emin)

AddAligned(a, b, emin, rm) ==
    IF Exp2(a) - emin > 20 \/ Exp2(b) - emin > 20 THEN OutOfDomain
    ELSE AddSum(SignedMant(a, emin) + SignedMant(b, emin), emin, rm)

\* a + b for non-NaN operands, under rounding mode rm
AddMag(a, b, rm) ==
    IF floatx80_is_inf(a)
    THEN (IF floatx80_is_inf(b) /\ SignOf(a) # SignOf(b) THEN Invalid ELSE Exact(a))
    ELSE IF floatx80_is_inf(b) THEN Exact(b)
    ELSE IF floatx80_is_zero(a) /\ floatx80_is_zero(b)
    THEN (IF SignOf(a) = SignOf(b) THEN Exact(a)
          ELSE Exact(Zero(IF rm = "float_round_down" THEN 1 ELSE 0)))
    ELSE IF floatx80_is_zero(a) THEN Exact(b)
    ELSE IF floatx80_is_zero(b) THEN Exact(a)
    ELSE IF ~(SimpleFin(a) /\ SimpleFin(b)) THEN OutOfDomain
    ELSE AddAligned(a, b, IF Exp2(a) < Exp2(b) THEN Exp2(a) ELSE Exp2(b), rm)

floatx80_add(a, b, rm) ==
    IF floatx80_is_nan(a) \/ floatx80_is_nan(b) THEN propagateFloatx80NaN(a, b)
    ELSE AddMag(a, b, rm)

floatx80_sub(a, b, rm) ==
    IF floatx80_is_nan(a) \/ floatx80_is_nan(b) THEN propagateFloatx80NaN(a, b)
    ELSE AddMag(a, Neg(b), rm)

MulMag(a, b, zSign) ==
    IF floatx80_is_inf(a) \/ floatx80_is_inf(b)
    THEN (IF floatx80_is_zero(a) \/ floatx80_is_zero(b) THEN Invalid
          ELSE Exact(Inf(zSign)))
    ELSE IF floatx80_is_zero(a) \/ floatx80_is_zero(b) THEN Exact(Zero(zSign))
    ELSE IF ~(SimpleFin(a) /\ SimpleFin(b)) THEN OutOfDomain
    ELSE EncodeOrOut(zSign, Mant(a) * Mant(b), Exp2(a) + Exp2(b))

floatx80_mul(a, b, rm) ==
    IF floatx80_is_nan(a) \/ floatx80_is_nan(b) THEN propagateFloatx80NaN(a, b)
    ELSE MulMag(a, b, (SignOf(a) + SignOf(b)) % 2)

DivMag(a, b, zSign) ==
    IF floatx80_is_inf(a)
    THEN (IF floatx80_is_inf(b) THEN Invalid ELSE Exact(Inf(zSign)))
    ELSE IF floatx80_is_inf(b) THEN Exact(Zero(zSign))
    ELSE IF floatx80_is_zero(b)
    THEN (IF floatx80_is_zero(a) THEN Invalid
          ELSE [v |-> Inf(zSign), f |-> {"float_flag_divbyzero"}, ok |-> TRUE])
    ELSE IF floatx80_is_zero(a) THEN Exact(Zero(zSign))
    ELSE IF ~(SimpleFin(a) /\ SimpleFin(b)) THEN OutOfDomain
    ELSE IF Mant(a) % Mant(b) # 0 THEN OutOfDomain
    ELSE EncodeOrOut(zSign, Mant(a) \div Mant(b), Exp2(a) - Exp2(b))

floatx80_div(a, b, rm) ==
    IF floatx80_is_nan(a) \/ floatx80_is_nan(b) THEN propagateFloatx80NaN(a, b)
    ELSE DivMag(a, b, (SignOf(a) + SignOf(b)) % 2)

(***************************************************************************)
(* SoftFloat conversions.  A float32 is [sign, exp, frac] (8 and 23 bits); *)
(* a float64 is [sign, exp, frac] with frac the 52 fraction bits as limbs  *)
(* <<f0,f1,f2,f3>>, f3 < 16.  Narrowing rounds under the rounding mode;    *)
(* results outside the narrow format's normal range are out of domain.     *)
(***************************************************************************)
F32(sgn, e, fr) == [sign |-> sgn, exp |-> e, frac |-> fr]
F64(sgn, e, f3, f2, f1, f0) == [sign |-> sgn, exp |-> e, frac |-> <<f0, f1, f2, f3>>]

RoundsUp(rm, sgn, inexact, cmpHalf, odd) ==
    CASE rm = "float_round_nearest_even" -> cmpHalf = "gt" \/ (cmpHalf = "eq" /\ odd)
      [] rm = "float_round_to_zero" -> FALSE
      [] rm = "float_round_down" -> sgn = 1 /\ inexact
      [] rm = "float_round_up" -> sgn = 0 /\ inexact

float32_to_floatx80(x) ==
    IF x.exp = 255
    THEN (IF x.frac = 0 THEN Exact(Inf(x.sign))
          ELSE [v |-> FX(x.sign * 32768 + 32767, BitOr(49152, x.frac \div 256),
                         (x.frac % 256) * 256, 0, 0),
                f |-> IF x.frac < 4194304 THEN {"float_flag_invalid"} ELSE {},
                ok |-> TRUE])
    ELSE IF x.exp = 0
    THEN (IF x.frac = 0 THEN Exact(Zero(x.sign))
          ELSE LET pp == Msb(x.frac)
               IN  Exact(FX(x.sign * 32768 + pp - 149 + 16383,
                            IF pp <= 15 THEN x.frac * Pow2(15 - pp)
                            ELSE x.frac \div Pow2(pp - 15),
                            IF pp <= 15 THEN 0
                            ELSE (x.frac % Pow2(pp - 15)) * Pow2(31 - pp),
                            0, 0)))
    ELSE Exact(FX(x.sign * 32768 + x.exp - 127 + 16383,
                  32768 + x.frac \div 256, (x.frac % 256) * 256, 0, 0))

\* the rounded 24-bit significand m1 packed, with the carry out of rounding
Pack32(sgn, e, m1, inexact) ==
    [v |-> F32(sgn, e + (IF m1 = 16777216 THEN 1 ELSE 0),
               IF m1 = 16777216 THEN 0 ELSE m1 - 8388608),
     f |-> IF inexact THEN {"float_flag_inexact"} ELSE {},
     ok |-> e + (IF m1 = 16777216 THEN 1 ELSE 0) \in 1..254]

\* rh: the 8 bits below the 24 kept; rl: any bit set below those
Round32(sgn, e, m24, rh, rl, rm) ==
    Pack32(sgn, e,
           IF RoundsUp(rm, sgn, rh # 0 \/ rl,
                       IF rh > 128 \/ (rh = 128 /\ rl) THEN "gt"
                       ELSE IF rh = 128 THEN "eq" ELSE "lt",
                       m24 % 2 = 1)
           THEN m24 + 1 ELSE m24,
           rh # 0 \/ rl)

floatx80_to_float32(a, rm) ==
    IF floatx80_is_nan(a)
    THEN [v |-> F32(SignOf(a), 255,
                    BitOr(4194304, (a.low[4] % 32768) * 256 + a.low[3] \div 256)),
          f |-> IF floatx80_is_signaling_nan(a) THEN {"float_flag_invalid"} ELSE {},
          ok |-> TRUE]
    ELSE IF floatx80_is_inf(a) THEN [v |-> F32(SignOf(a), 255, 0), f |-> {}, ok |-> TRUE]
    ELSE IF floatx80_is_zero(a) THEN [v |-> F32(SignOf(a), 0, 0), f |-> {}, ok |-> TRUE]
    ELSE IF ExpOf(a) = 0 \/ ExpOf(a) = 32767 \/ a.low[4] < 32768
    THEN [v |-> F32(0, 0, 0), f |-> {}, ok |-> FALSE]
    ELSE Round32(SignOf(a), ExpOf(a) - 16383 + 127,
                 a.low[4] * 256 + a.low[3] \div 256,
                 a.low[3] % 256, a.low[2] # 0 \/ a.low[1] # 0, rm)

\* the 64-bit significand shifted left by 11, from the 53-bit <<g0,g1,g2,g3>>
Shl11(g, topbits) ==
    <<(g[1] % 32) * 2048,
      g[1] \div 32 + (g[2] % 32) * 2048,
      g[2] \div 32 + (g[3] % 32) * 2048,
      BitOr(g[3] \div 32 + (g[4] % 16) * 2048, topbits)>>

\* the 64-bit significand shifted right by 11: 53 bits as <<g0,g1,g2,g3>>
Shr11(low) ==
    <<low[1] \div 2048 + (low[2] % 2048) * 32,
      low[2] \div 2048 + (low[3] % 2048) * 32,
      low[3] \div 2048 + (low[4] % 2048) * 32,
      low[4] \div 2048>>

Inc4(g) ==
    IF g[1] < 65535 THEN <<g[1] + 1, g[2], g[3], g[4]>>
    ELSE IF g[2] < 65535 THEN <<0, g[2] + 1, g[3], g[4]>>
    ELSE IF g[3] < 65535 THEN <<0, 0, g[3] + 1, g[4]>>
    ELSE <<0, 0, 0, g[4] + 1>>

float64_to_floatx80(x) ==
    IF x.exp = 2047
    THEN (IF x.frac = <<0, 0, 0, 0>> THEN Exact(Inf(x.sign))
          ELSE [v |-> [high |-> x.sign * 32768 + 32767, low |-> Shl11(x.frac, 49152)],
                f |-> IF x.frac[4] < 8 THEN {"float_flag_invalid"} ELSE {},
                ok |-> TRUE])
    ELSE IF x.exp = 0
    THEN (IF x.frac = <<0, 0, 0, 0>> THEN Exact(Zero(x.sign)) ELSE OutOfDomain)
    ELSE Exact([high |-> x.sign * 32768 + x.exp - 1023 + 16383,
                low |-> Shl11(x.frac, 32768)])

\* the rounded 53-bit significand g1 packed, with the carry out of rounding
Pack64(sgn, e, g1, inexact) ==
    [v |-> [sign |-> sgn, exp |-> e + (IF g1[4] = 32 THEN 1 ELSE 0),
            frac |-> IF g1[4] = 32 THEN <<0, 0, 0, 0>>
                     ELSE <<g1[1], g1[2], g1[3], g1[4] % 16>>],
     f |-> IF inexact THEN {"float_flag_inexact"} ELSE {},
     ok |-> e + (IF g1[4] = 32 THEN 1 ELSE 0) \in 1..2046]

\* g: the 53 bits kept; r: the 11 bits below them
Round64(sgn, e, g, r, rm) ==
    Pack64(sgn, e,
           IF RoundsUp(rm, sgn, r # 0,
                       IF r > 1024 THEN "gt" ELSE IF r = 1024 THEN "eq" ELSE "lt",
                       g[1] % 2 = 1)
           THEN Inc4(g) ELSE g,
           r # 0)

NaN64(sgn, g, signaling) ==
    [v |-> [sign |-> sgn, exp |-> 2047,
            frac |-> <<g[1], g[2], g[3], BitOr(8, g[4] % 16)>>],
     f |-> IF signaling THEN {"float_flag_invalid"} ELSE {},
     ok |-> TRUE]

floatx80_to_float64(a, rm) ==
    IF floatx80_is_nan(a)
    THEN NaN64(SignOf(a), Shr11(a.low), floatx80_is_signaling_nan(a))
    ELSE IF floatx80_is_inf(a) THEN [v |-> F64(SignOf(a), 2047, 0, 0, 0, 0), f |-> {}, ok |-> TRUE]
    ELSE IF floatx80_is_zero(a) THEN [v |-> F64(SignOf(a), 0, 0, 0, 0, 0), f |-> {}, ok |-> TRUE]
    ELSE IF ExpOf(a) = 0 \/ ExpOf(a) = 32767 \/ a.low[4] < 32768
    THEN [v |-> F64(0, 0, 0, 0, 0, 0), f |-> {}, ok |-> FALSE]
    ELSE Round64(SignOf(a), ExpOf(a) - 16383 + 1023, Shr11(a.low),
                 a.low[1] % 2048, rm)

\* int32_to_floatx80 for -2^31 < n < 2^31, and for INT32_MIN
int32_to_floatx80(n) ==
    IF n = 0 THEN fx80_zero
    ELSE LET mag == IF n < 0 THEN -n ELSE n
             pp == Msb(mag)
         IN  FX((IF n < 0 THEN 32768 ELSE 0) + pp + 16383,
                IF pp <= 15 THEN mag * Pow2(15 - pp) ELSE mag \div Pow2(pp - 15),
                IF pp <= 15 THEN 0 ELSE (mag % Pow2(pp - 15)) * Pow2(31 - pp),
                0, 0)
fx80_int32_min == FX(32768 + 31 + 16383, 32768, 0, 0, 0)

(***************************************************************************)
(* Narrow-format arithmetic (float32_add etc.): the exact result of the    *)
(* operation on the narrow operands, rounded to the narrow format.         *)
(***************************************************************************)
Kernel(op, a, b, rm) ==
    CASE op = "add" -> floatx80_add(a, b, rm)
      [] op = "sub" -> floatx80_sub(a, b, rm)
      [] op = "mul" -> floatx80_mul(a, b, rm)
      [] op = "div" -> floatx80_div(a, b, rm)

X87_PC(s) == (s.cw \div 256) % 4

\* float32_to_floatx80 of a narrowing's result n, keeping n's flags
Back32(n) == [v |-> float32_to_floatx80(n.v).v, f |-> n.f, ok |-> n.ok]
\* float64_to_floatx80 of a narrowing's result n, keeping n's flags
Back64(n) == [v |-> float64_to_floatx80(n.v).v, f |-> n.f, ok |-> n.ok]

\* a taken to the format precision control pc selects, and back
Narrowed(pc, a, rm) ==
    CASE pc = X87_CW_PC_SINGLE -> Back32(floatx80_to_float32(a, rm))
      [] pc = X87_CW_PC_DOUBLE -> Back64(floatx80_to_float64(a, rm))
      [] OTHER -> Exact(a)

\* value of rn, flags of the operand conversions an and bn, of the
\* operation r and of the result conversion rn
NarrowResult(an, bn, r, rn) ==
    [v |-> rn.v,
     f |-> an.f \cup bn.f \cup r.f \cup rn.f,
     ok |-> an.ok /\ bn.ok /\ r.ok /\ rn.ok]

NarrowRound(pc, an, bn, r, rm) == NarrowResult(an, bn, r, Narrowed(pc, r.v, rm))

NarrowOp(op, pc, an, bn, rm) ==
    NarrowRound(pc, an, bn, Kernel(op, an.v, bn.v, rm), rm)

(***************************************************************************)
(* Core arithmetic (x87ops.c:353-471): the precision-control switch.       *)
(***************************************************************************)
\* the switch taking every precision control as extended
x87_arith_extended(op, s, a, b) == Kernel(op, a, b, s.rm)

x87_arith(op, s, a, b) ==
    IF X87_PC(s) \notin {X87_CW_PC_SINGLE, X87_CW_PC_DOUBLE, X87_CW_PC_EXTEND}
    THEN Exact(fx80_zero)
    ELSE NarrowOp(op, X87_PC(s), Narrowed(X87_PC(s), a, s.rm),
                  Narrowed(X87_PC(s), b, s.rm), s.rm)

x87_add(s, a, b) == x87_arith("add", s, a, b)
x87_sub(s, a, b) == x87_arith("sub", s, a, b)
x87_mul(s, a, b) == x87_arith("mul", s, a, b)
x87_div(s, a, b) == x87_arith("div", s, a, b)

\* the SoftFloat call's flags land in float_exception_flags
Lib(s, r) == [s EXCEPT !.fl = s.fl \cup r.f, !.ok = s.ok /\ r.ok]

(***************************************************************************)
(* The arithmetic handlers (x87ops.c:486-1973) share one shape: operand    *)
(* emptiness check, operand fetch, pre-check, x87_add/sub/mul/div,         *)
(* x87_check_exceptions, writeback and optional pop.  pre is the           *)
(* signaling-NaN test, with the infinity test of the ADD/SUB/SUBR forms    *)
(* when infchk.  The result is [s, result].                                *)
(***************************************************************************)
\* the library result r taken into the state
ArithResult(s, r) == [s |-> Lib(s, r), result |-> r.v]

\* the invalid-operand branch latching IE but leaving operand a as result
ArithCompute_keep_a(s, op, a, b, infchk) ==
    IF \/ floatx80_is_signaling_nan(a) \/ floatx80_is_signaling_nan(b)
       \/ (infchk /\ floatx80_is_inf(a) /\ floatx80_is_inf(b)
                  /\ BitAnd(BitXor(a.high, b.high), 32768) # 0)
    THEN [s |-> SwOr(s, X87_SW_IE), result |-> a]
    ELSE ArithResult(s, x87_arith(op, s, a, b))

ArithCompute(s, op, a, b, infchk) ==
    IF \/ floatx80_is_signaling_nan(a) \/ floatx80_is_signaling_nan(b)
       \/ (infchk /\ floatx80_is_inf(a) /\ floatx80_is_inf(b)
                  /\ BitAnd(BitXor(a.high, b.high), 32768) # 0)
    THEN [s |-> SwOr(s, X87_SW_IE), result |-> fx80_inan]
    ELSE ArithResult(s, x87_arith(op, s, a, b))

PopIf(s, pop) == IF pop THEN x87_inc_stack(s) ELSE s

\* if (x87_check_exceptions()) { x87_write_stack(dst, result, TRUE); pop }
WriteIfOk(s, dst, result, pop) ==
    IF s.ret = 1 THEN PopIf(x87_write_stack(s, dst, result, TRUE), pop) ELSE s

ArithCommit(p, dst, pop) ==
    WriteIfOk(x87_check_exceptions(p.s), dst, p.result, pop)

\* register forms: aidx/bidx select the operands, dst the destination
ArithReg(s, i, op, infchk, aidx, bidx, dst, pop) ==
    ArithCommit(
        IF X87_IS_ST_EMPTY(s, 0) \/ X87_IS_ST_EMPTY(s, i)
        THEN [s |-> x87_set_stack_underflow(s), result |-> fx80_inan]
        ELSE ArithCompute(s, op, ST(s, aidx), ST(s, bidx), infchk),
        dst, pop)

\* the memory operand m read and converted: its flags land in
\* float_exception_flags
MemOperand(s, m) == [Lib(s, m) EXCEPT !.opd = m.v]

\* memory forms: m is the converted memory operand [v, f, ok]; memfirst
\* tells whether it is operand a (the reversed forms) or operand b
ArithMem(s, m, flt, op, infchk, memfirst) ==
    IF ~X87_IS_ST_EMPTY(s, 0) /\ flt THEN [s EXCEPT !.fault = TRUE]
    ELSE ArithCommit(
             IF X87_IS_ST_EMPTY(s, 0)
             THEN [s |-> x87_set_stack_underflow(s), result |-> fx80_inan]
             ELSE ArithCompute(MemOperand(s, m), op,
                               IF memfirst THEN m.v ELSE ST(s, 0),
                               IF memfirst THEN ST(s, 0) ELSE m.v, infchk),
             0, FALSE)

(***************************************************************************)
(* Inputs: operand indices, memory operands, host state.                   *)
(***************************************************************************)
StiSet == 0..MaxSti

fx80_pinf == FX(32767, 32768, 0, 0, 0)
fx80_snan == FX(32767, 40960, 0, 0, 0)
fx80_qnan == FX(32767, 49153, 0, 0, 0)
fx80_denormal == FX(0, 0, 0, 0, 1)
fx80_two == FX(16384, 32768, 0, 0, 0)
fx80_mone == FX(49151, 32768, 0, 0, 0)

M32Set == {F32(0, 127, 0), F32(0, 0, 0), F32(1, 255, 0), F32(0, 255, 1)}
M64Set == {F64(0, 1023, 0, 0, 0, 0), F64(0, 2047, 0, 0, 0, 0), F64(0, 2047, 0, 0, 0, 1)}
I16Set == {0, 2}
I32Set == {0, -1}
\* 2^63, beyond the range of every integer store
fx80_two63 == FX(16446, 32768, 0, 0, 0)
M80Set ==
    {fx80_one, fx80_pinf, fx80_snan, fx80_qnan, fx80_inan, fx80_denormal,
     fx80_two63}

(***************************************************************************)
(* A handler step: the handler ran on the current state and produced r.    *)
(* last is the observed call: the handler, its register operand (for the   *)
(* FRSTOR forms: 1 when the image read is the one in mem), its             *)
(* converted memory operand, how x87_check_exceptions ended, whether #MF   *)
(* was raised, whether a memory read faulted, and pre, the FPU state the   *)
(* handler started from.  One call of a run is observed, and it is the     *)
(* run's last; the calls before it leave last at NoCall.                   *)
(***************************************************************************)
Pre(s) ==
    [reg |-> s.reg, sw |-> s.sw, cw |-> s.cw, tw |-> s.tw, rm |-> s.rm,
     fl |-> s.fl]

NoPre ==
    [reg |-> [i \in 0..7 |-> fx80_zero], sw |-> 0, cw |-> 0, tw |-> 0,
     rm |-> "float_round_nearest_even", fl |-> {}]

NoCall ==
    [op |-> "none", arg |-> 0, opd |-> fx80_zero, chk |-> "none",
     trap |-> FALSE, fault |-> FALSE, pre |-> NoPre]

\* a run takes at most MaxSteps calls and ends with the observed one
CanStep == nsteps < MaxSteps /\ last.op = "none"

Do(name, arg, r) ==
    /\ r.ok
    /\ m_x87_reg' = r.reg
    /\ m_x87_sw' = r.sw
    /\ m_x87_cw' = r.cw
    /\ m_x87_tw' = r.tw
    /\ float_rounding_mode' = r.rm
    /\ float_exception_flags' = r.fl
    /\ m_CF' = r.CF
    /\ m_ZF' = r.ZF
    /\ m_PF' = r.PF
    /\ m_cr0' = r.cr0
    /\ m_operand_size' = r.opsize
    /\ mem' = r.mem
    /\ nsteps' = nsteps + 1
    /\ UNCHANGED <<bcd, m_opcode_table_x87, build_modrm>>
    /\ \/ last' = [op |-> name, arg |-> arg, opd |-> r.opd, chk |-> r.chk,
                   trap |-> r.trap, fault |-> r.fault, pre |-> Pre(Cur)]
       \/ nsteps + 1 < MaxSteps /\ last' = NoCall

\* the dispatch tables are left out of the specifications of the handlers
NoTable == <<>>

NoMem == [fmt |-> "none", val |-> <<>>, at |-> NoPre]

(***************************************************************************)
(* Arithmetic handlers (x87ops.c:486-1973).  x87_fidiv_m16int and          *)
(* x87_fidivr_m16int read 32 bits and keep the low 16 as the operand.      *)
(***************************************************************************)
x87_fadd_m32real ==
    /\ CanStep
    /\ \E m \in M32Set, flt \in BOOLEAN :
           Do("x87_fadd_m32real", 0, ArithMem(Cur, float32_to_floatx80(m), flt, "add", TRUE, FALSE))

x87_fadd_m64real ==
    /\ CanStep
    /\ \E m \in M64Set, flt \in BOOLEAN :
           Do("x87_fadd_m64real", 0, ArithMem(Cur, float64_to_floatx80(m), flt, "add", TRUE, FALSE))

x87_fadd_st_sti ==
    /\ CanStep
    /\ \E i \in StiSet :
           Do("x87_fadd_st_sti", i, ArithReg(Cur, i, "add", TRUE, 0, i, 0, FALSE))

x87_fadd_sti_st ==
    /\ CanStep
    /\ \E i \in StiSet :
           Do("x87_fadd_sti_st", i, ArithReg(Cur, i, "add", TRUE, 0, i, i, FALSE))

x87_faddp ==
    /\ CanStep
    /\ \E i \in StiSet :
           Do("x87_faddp", i, ArithReg(Cur, i, "add", TRUE, 0, i, i, TRUE))

x87_fiadd_m32int ==
    /\ CanStep
    /\ \E m \in I32Set, flt \in BOOLEAN :
           Do("x87_fiadd_m32int", 0, ArithMem(Cur, Exact(int32_to_floatx80(m)), flt, "add", TRUE, FALSE))

x87_fiadd_m16int ==
    /\ CanStep
    /\ \E m \in I16Set, flt \in BOOLEAN :
           Do("x87_fiadd_m16int", 0, ArithMem(Cur, Exact(int32_to_floatx80(m)), flt, "add", TRUE, FALSE))

x87_fsub_m32real ==
    /\ CanStep
    /\ \E m \in M32Set, flt \in BOOLEAN :
           Do("x87_fsub_m32real", 0, ArithMem(Cur, float32_to_floatx80(m), flt, "sub", TRUE, FALSE))

x87_fsub_m64real ==
    /\ CanStep
    /\ \E m \in M64Set, flt \in BOOLEAN :
           Do("x87_fsub_m64real", 0, ArithMem(Cur, float64_to_floatx80(m), flt, "sub", TRUE, FALSE))

x87_fsub_st_sti ==
    /\ CanStep
    /\ \E i \in StiSet :
           Do("x87_fsub_st_sti", i, ArithReg(Cur, i, "sub", TRUE, 0, i, 0, FALSE))

x87_fsub_sti_st ==
    /\ CanStep
    /\ \E i \in StiSet :
           Do("x87_fsub_sti_st", i, ArithReg(Cur, i, "sub", TRUE, i, 0, i, FALSE))

x87_fsubp ==
    /\ CanStep
    /\ \E i \in StiSet :
           Do("x87_fsubp", i, ArithReg(Cur, i, "sub", TRUE, i, 0, i, TRUE))

x87_fisub_m32int ==
    /\ CanStep
    /\ \E m \in I32Set, flt \in BOOLEAN :
           Do("x87_fisub_m32int", 0, ArithMem(Cur, Exact(int32_to_floatx80(m)), flt, "sub", TRUE, FALSE))

x87_fisub_m16int ==
    /\ CanStep
    /\ \E m \in I16Set, flt \in BOOLEAN :
           Do("x87_fisub_m16int", 0, ArithMem(Cur, Exact(int32_to_floatx80(m)), flt, "sub", TRUE, FALSE))

x87_fsubr_m32real ==
    /\ CanStep
    /\ \E m \in M32Set, flt \in BOOLEAN :
           Do("x87_fsubr_m32real", 0, ArithMem(Cur, float32_to_floatx80(m), flt, "sub", TRUE, TRUE))

x87_fsubr_m64real ==
    /\ CanStep
    /\ \E m \in M64Set, flt \in BOOLEAN :
           Do("x87_fsubr_m64real", 0, ArithMem(Cur, float64_to_floatx80(m), flt, "sub", TRUE, TRUE))

x87_fsubr_st_sti ==
    /\ CanStep
    /\ \E i \in StiSet :
           Do("x87_fsubr_st_sti", i, ArithReg(Cur, i, "sub", TRUE, i, 0, 0, FALSE))

x87_fsubr_sti_st ==
    /\ CanStep
    /\ \E i \in StiSet :
           Do("x87_fsubr_sti_st", i, ArithReg(Cur, i, "sub", TRUE, 0, i, i, FALSE))

x87_fsubrp ==
    /\ CanStep
    /\ \E i \in StiSet :
           Do("x87_fsubrp", i, ArithReg(Cur, i, "sub", TRUE, 0, i, i, TRUE))

x87_fisubr_m32int ==
    /\ CanStep
    /\ \E m \in I32Set, flt \in BOOLEAN :
           Do("x87_fisubr_m32int", 0, ArithMem(Cur, Exact(int32_to_floatx80(m)), flt, "sub", TRUE, TRUE))

x87_fisubr_m16int ==
    /\ CanStep
    /\ \E m \in I16Set, flt \in BOOLEAN :
           Do("x87_fisubr_m16int", 0, ArithMem(Cur, Exact(int32_to_floatx80(m)), flt, "sub", TRUE, TRUE))

x87_fdiv_m32real ==
    /\ CanStep
    /\ \E m \in M32Set, flt \in BOOLEAN :
           Do("x87_fdiv_m32real", 0, ArithMem(Cur, float32_to_floatx80(m), flt, "div", FALSE, FALSE))

x87_fdiv_m64real ==
    /\ CanStep
    /\ \E m \in M64Set, flt \in BOOLEAN :
           Do("x87_fdiv_m64real", 0, ArithMem(Cur, float64_to_floatx80(m), flt, "div", FALSE, FALSE))

x87_fdiv_st_sti ==
    /\ CanStep
    /\ \E i \in StiSet :
           Do("x87_fdiv_st_sti", i, ArithReg(Cur, i, "div", FALSE, 0, i, 0, FALSE))

x87_fdiv_sti_st ==
    /\ CanStep
    /\ \E i \in StiSet :
           Do("x87_fdiv_sti_st", i, ArithReg(Cur, i, "div", FALSE, i, 0, i, FALSE))

x87_fdivp ==
    /\ CanStep
    /\ \E i \in StiSet :
           Do("x87_fdivp", i, ArithReg(Cur, i, "div", FALSE, i, 0, i, TRUE))

x87_fidiv_m32int ==
    /\ CanStep
    /\ \E m \in I32Set, flt \in BOOLEAN :
           Do("x87_fidiv_m32int", 0, ArithMem(Cur, Exact(int32_to_floatx80(m)), flt, "div", FALSE, FALSE))

x87_fidiv_m16int ==
    /\ CanStep
    /\ \E m \in I16Set, flt \in BOOLEAN :
           Do("x87_fidiv_m16int", 0, ArithMem(Cur, Exact(int32_to_floatx80(m)), flt, "div", FALSE, FALSE))

x87_fdivr_m32real ==
    /\ CanStep
    /\ \E m \in M32Set, flt \in BOOLEAN :
           Do("x87_fdivr_m32real", 0, ArithMem(Cur, float32_to_floatx80(m), flt, "div", FALSE, TRUE))

x87_fdivr_m64real ==
    /\ CanStep
    /\ \E m \in M64Set, flt \in BOOLEAN :
           Do("x87_fdivr_m64real", 0, ArithMem(Cur, float64_to_floatx80(m), flt, "div", FALSE, TRUE))

x87_fdivr_st_sti ==
    /\ CanStep
    /\ \E i \in StiSet :
           Do("x87_fdivr_st_sti", i, ArithReg(Cur, i, "div", FALSE, i, 0, 0, FALSE))

x87_fdivr_sti_st ==
    /\ CanStep
    /\ \E i \in StiSet :
           Do("x87_fdivr_sti_st", i, ArithReg(Cur, i, "div", FALSE, 0, i, i, FALSE))

x87_fdivrp ==
    /\ CanStep
    /\ \E i \in StiSet :
           Do("x87_fdivrp", i, ArithReg(Cur, i, "div", FALSE, 0, i, i, TRUE))

x87_fidivr_m32int ==
    /\ CanStep
    /\ \E m \in I32Set, flt \in BOOLEAN :
           Do("x87_fidivr_m32int", 0, ArithMem(Cur, Exact(int32_to_floatx80(m)), flt, "div", FALSE, TRUE))

x87_fidivr_m16int ==
    /\ CanStep
    /\ \E m \in I16Set, flt \in BOOLEAN :
           Do("x87_fidivr_m16int", 0, ArithMem(Cur, Exact(int32_to_floatx80(m)), flt, "div", FALSE, TRUE))

x87_fmul_m32real ==
    /\ CanStep
    /\ \E m \in M32Set, flt \in BOOLEAN :
           Do("x87_fmul_m32real", 0, ArithMem(Cur, float32_to_floatx80(m), flt, "mul", FALSE, FALSE))

x87_fmul_m64real ==
    /\ CanStep
    /\ \E m \in M64Set, flt \in BOOLEAN :
           Do("x87_fmul_m64real", 0, ArithMem(Cur, float64_to_floatx80(m), flt, "mul", FALSE, FALSE))

x87_fmul_st_sti ==
    /\ CanStep
    /\ \E i \in StiSet :
           Do("x87_fmul_st_sti", i, ArithReg(Cur, i, "mul", FALSE, 0, i, 0, FALSE))

x87_fmul_sti_st ==
    /\ CanStep
    /\ \E i \in StiSet :
           Do("x87_fmul_sti_st", i, ArithReg(Cur, i, "mul", FALSE, 0, i, i, FALSE))

x87_fmulp ==
    /\ CanStep
    /\ \E i \in StiSet :
           Do("x87_fmulp", i, ArithReg(Cur, i, "mul", FALSE, 0, i, i, TRUE))

x87_fimul_m32int ==
    /\ CanStep
    /\ \E m \in I32Set, flt \in BOOLEAN :
           Do("x87_fimul_m32int", 0, ArithMem(Cur, Exact(int32_to_floatx80(m)), flt, "mul", FALSE, FALSE))

x87_fimul_m16int ==
    /\ CanStep
    /\ \E m \in I16Set, flt \in BOOLEAN :
           Do("x87_fimul_m16int", 0, ArithMem(Cur, Exact(int32_to_floatx80(m)), flt, "mul", FALSE, FALSE))

(***************************************************************************)
(* Conditional move (x87ops.c:1982-2172).  The EFLAGS bits are set by the  *)
(* integer instructions preceding the FCMOVcc: the action draws them.      *)
(***************************************************************************)
FlagSet == {0, 1}

WithFlags(s, cf, zf, pf) == [s EXCEPT !.CF = cf, !.ZF = zf, !.PF = pf]

\* FCmov moving whatever the host flags say
FCmov_always(s, i, cond) ==
    LET p == IF X87_IS_ST_EMPTY(s, i)
             THEN [s |-> x87_set_stack_underflow(s), result |-> fx80_inan]
             ELSE [s |-> s, result |-> ST(s, i)]
        s1 == x87_check_exceptions(p.s)
    IN  IF s1.ret = 1
        THEN [s1 EXCEPT !.reg[ST_TO_PHYS(s1, 0)] = p.result]
        ELSE s1

FCmov(s, i, cond) ==
    IF cond
    THEN LET p == IF X87_IS_ST_EMPTY(s, i)
                  THEN [s |-> x87_set_stack_underflow(s), result |-> fx80_inan]
                  ELSE [s |-> s, result |-> ST(s, i)]
             s1 == x87_check_exceptions(p.s)
         IN  IF s1.ret = 1
             THEN [s1 EXCEPT !.reg[ST_TO_PHYS(s1, 0)] = p.result]
             ELSE s1
    ELSE s

x87_fcmovb_sti ==
    /\ CanStep
    /\ \E i \in StiSet, cf \in FlagSet :
           LET s == WithFlags(Cur, cf, m_ZF, m_PF)
           IN  Do("x87_fcmovb_sti", i, FCmov(s, i, s.CF = 1))

x87_fcmove_sti ==
    /\ CanStep
    /\ \E i \in StiSet, zf \in FlagSet :
           LET s == WithFlags(Cur, m_CF, zf, m_PF)
           IN  Do("x87_fcmove_sti", i, FCmov(s, i, s.ZF = 1))

x87_fcmovbe_sti ==
    /\ CanStep
    /\ \E i \in StiSet, cf \in FlagSet, zf \in FlagSet :
           LET s == WithFlags(Cur, cf, zf, m_PF)
           IN  Do("x87_fcmovbe_sti", i, FCmov(s, i, BitOr(s.CF, s.ZF) = 1))

x87_fcmovu_sti ==
    /\ CanStep
    /\ \E i \in StiSet, pf \in FlagSet :
           LET s == WithFlags(Cur, m_CF, m_ZF, pf)
           IN  Do("x87_fcmovu_sti", i, FCmov(s, i, s.PF = 1))

x87_fcmovnb_sti ==
    /\ CanStep
    /\ \E i \in StiSet, cf \in FlagSet :
           LET s == WithFlags(Cur, cf, m_ZF, m_PF)
           IN  Do("x87_fcmovnb_sti", i, FCmov(s, i, s.CF = 0))

x87_fcmovne_sti ==
    /\ CanStep
    /\ \E i \in StiSet, zf \in FlagSet :
           LET s == WithFlags(Cur, m_CF, zf, m_PF)
           IN  Do("x87_fcmovne_sti", i, FCmov(s, i, s.ZF = 0))

x87_fcmovnbe_sti ==
    /\ CanStep
    /\ \E i \in StiSet, cf \in FlagSet, zf \in FlagSet :
           LET s == WithFlags(Cur, cf, zf, m_PF)
           IN  Do("x87_fcmovnbe_sti", i, FCmov(s, i, s.CF = 0 /\ s.ZF = 0))

x87_fcmovnu_sti ==
    /\ CanStep
    /\ \E i \in StiSet, pf \in FlagSet :
           LET s == WithFlags(Cur, m_CF, m_ZF, pf)
           IN  Do("x87_fcmovnu_sti", i, FCmov(s, i, s.PF = 0))

(***************************************************************************)
(* Host libm on doubles (pow, log, tan, atan2, sin, cos), for the          *)
(* arguments whose results are exact and platform independent.             *)
(* A double is a float64 record; results are [v, ok].                      *)
(***************************************************************************)
D(sgn, e) == F64(sgn, e, 0, 0, 0, 0)
DIsNaN(d) == d.exp = 2047 /\ d.frac # <<0, 0, 0, 0>>
DIsInf(d) == d.exp = 2047 /\ d.frac = <<0, 0, 0, 0>>
DIsZero(d) == d.exp = 0 /\ d.frac = <<0, 0, 0, 0>>
DOk(d) == [v |-> d, ok |-> TRUE]
DOut == [v |-> D(0, 0), ok |-> FALSE]

\* pow(2.0, x) - 1
HostPow2m1(x) ==
    IF DIsNaN(x) THEN DOk(x)
    ELSE IF DIsInf(x) THEN DOk(IF x.sign = 0 THEN x ELSE D(1, 1023))
    ELSE IF DIsZero(x) THEN DOk(D(0, 0))
    ELSE IF x = D(0, 1023) THEN DOk(D(0, 1023))
    ELSE DOut

\* log(x) / log(2.0)
HostLog2(x) ==
    IF DIsNaN(x) THEN DOk(x)
    ELSE IF DIsZero(x) THEN DOk(D(1, 2047))
    ELSE IF x.sign = 1 THEN DOut
    ELSE IF DIsInf(x) THEN DOk(x)
    ELSE IF x = D(0, 1023) THEN DOk(D(0, 0))
    ELSE IF x = D(0, 1024) THEN DOk(D(0, 1023))
    ELSE DOut

\* log(x + 1.0) / log(2.0)
HostLog2p1(x) ==
    IF DIsNaN(x) THEN DOk(x)
    ELSE IF DIsZero(x) THEN DOk(D(0, 0))
    ELSE IF x = D(0, 1023) THEN DOk(D(0, 1023))
    ELSE IF x = D(1, 1023) THEN DOk(D(1, 2047))
    ELSE IF DIsInf(x) /\ x.sign = 0 THEN DOk(x)
    ELSE DOut

\* sin(x) and tan(x) agree on these arguments
HostSin(x) ==
    IF DIsNaN(x) THEN DOk(x)
    ELSE IF DIsInf(x) THEN DOut
    ELSE IF DIsZero(x) THEN DOk(x)
    ELSE DOut

HostTan(x) == HostSin(x)

HostCos(x) ==
    IF DIsNaN(x) THEN DOk(x)
    ELSE IF DIsInf(x) THEN DOut
    ELSE IF DIsZero(x) THEN DOk(D(0, 1023))
    ELSE DOut

\* atan2(y, x)
HostAtan2(y, x) ==
    IF DIsNaN(y) THEN DOk(y)
    ELSE IF DIsNaN(x) THEN DOk(x)
    ELSE IF DIsZero(y) /\ x.sign = 0 THEN DOk(y)
    ELSE IF ~DIsInf(y) /\ DIsInf(x) /\ x.sign = 0 THEN DOk(D(y.sign, 0))
    ELSE DOut

\* fx80_to_double and double_to_fx80 around a host function
fx80_to_double(s, fx) ==
    LET r == floatx80_to_float64(fx, s.rm)
    IN  [s |-> Lib(s, r), d |-> r.v]

double_to_fx80(s, h) ==
    LET r == float64_to_floatx80(h.v)
    IN  [s |-> Lib([s EXCEPT !.ok = s.ok /\ h.ok], r), result |-> r.v]

(***************************************************************************)
(* Remainder, square root and transcendental handlers                      *)
(* (x87ops.c:2180-2570).                                                   *)
(***************************************************************************)
\* if (x87_check_exceptions()) x87_write_stack(0, result, TRUE);
WriteSt0(p) ==
    LET s1 == x87_check_exceptions(p.s)
    IN  IF s1.ret = 1 THEN x87_write_stack(s1, 0, p.result, TRUE) ELSE s1

\* if (x87_check_exceptions()) { x87_write_stack(1, result, TRUE); x87_inc_stack(); }
WriteSt1Pop(p) ==
    LET s1 == x87_check_exceptions(p.s)
    IN  IF s1.ret = 1 THEN x87_inc_stack(x87_write_stack(s1, 1, p.result, TRUE))
        ELSE s1

\* write result1, push, write result2
WritePush(s, result1, result2) ==
    LET s1 == x87_check_exceptions(s)
    IN  IF s1.ret = 1
        THEN x87_write_stack(x87_dec_stack(x87_write_stack(s1, 0, result1, TRUE)),
                             0, result2, TRUE)
        ELSE s1

Underflow(s) == [s |-> x87_set_stack_underflow(s), result |-> fx80_inan]

\* floatx80_to_int64_round_to_zero on the values computed here: [q, f, ok]
ToInt64Rtz(a) ==
    IF floatx80_is_zero(a) THEN [q |-> 0, f |-> {}, ok |-> TRUE]
    ELSE IF ~SimpleFin(a) \/ Exp2(a) > 8 THEN [q |-> 0, f |-> {}, ok |-> FALSE]
    ELSE LET sg == IF SignOf(a) = 1 THEN -1 ELSE 1
         IN  IF Exp2(a) >= 0
             THEN [q |-> sg * Mant(a) * Pow2(Exp2(a)), f |-> {}, ok |-> TRUE]
             ELSE IF Exp2(a) < -20
             THEN [q |-> 0, f |-> {"float_flag_inexact"}, ok |-> TRUE]
             ELSE [q |-> sg * (Mant(a) \div Pow2(-Exp2(a))),
                   f |-> IF Mant(a) % Pow2(-Exp2(a)) # 0
                         THEN {"float_flag_inexact"} ELSE {},
                   ok |-> TRUE]

\* the d < 64 branch of x87_fprem; the other branch is outside the domain
FpremCompute(s, a0, b1) ==
    LET s0 == SwClear(s, X87_SW_C2)
        d == ExpOf(a0) - ExpOf(b1)
        t == floatx80_div(a0, b1, s.rm)
        q == ToInt64Rtz(t.v)
        qf == int32_to_floatx80(q.q)
        tt == floatx80_mul(b1, qf, s.rm)
        r == floatx80_sub(a0, tt.v, s.rm)
        s1 == Lib(Lib(Lib(Lib(s0, t), q), tt), r)
        s2 == SwClear(s1, X87_SW_C0 + X87_SW_C3 + X87_SW_C1)
        qm == q.q % 8
        s3 == SwOr(s2, (IF qm % 2 = 1 THEN X87_SW_C1 ELSE 0)
                       + (IF (qm \div 2) % 2 = 1 THEN X87_SW_C3 ELSE 0)
                       + (IF (qm \div 4) % 2 = 1 THEN X87_SW_C0 ELSE 0))
    IN  IF d < 64 /\ ~floatx80_is_nan(t.v) /\ ~floatx80_is_inf(t.v)
        THEN [s |-> s3, result |-> r.v]
        ELSE [s |-> [s0 EXCEPT !.ok = FALSE], result |-> fx80_zero]

x87_fprem ==
    /\ CanStep
    /\ Do("x87_fprem", 0,
          WriteSt0(IF X87_IS_ST_EMPTY(Cur, 0) \/ X87_IS_ST_EMPTY(Cur, 1)
                   THEN Underflow(Cur)
                   ELSE FpremCompute(Cur, ST(Cur, 0), ST(Cur, 1))))

\* floatx80_rem for exactly divisible operands and for a zero dividend
floatx80_rem(a, b, rm) ==
    IF floatx80_is_nan(a) \/ floatx80_is_nan(b) THEN propagateFloatx80NaN(a, b)
    ELSE IF floatx80_is_inf(a) \/ floatx80_is_zero(b) THEN Invalid
    ELSE IF floatx80_is_inf(b) \/ floatx80_is_zero(a) THEN Exact(a)
    ELSE IF a = b THEN Exact(Zero(SignOf(a)))
    ELSE OutOfDomain

x87_fprem1 ==
    /\ CanStep
    /\ Do("x87_fprem1", 0,
          WriteSt0(IF X87_IS_ST_EMPTY(Cur, 0) \/ X87_IS_ST_EMPTY(Cur, 1)
                   THEN Underflow(Cur)
                   ELSE LET s0 == SwClear(Cur, X87_SW_C2)
                            r == floatx80_rem(ST(Cur, 0), ST(Cur, 1), Cur.rm)
                        IN  [s |-> Lib(s0, r), result |-> r.v]))

\* floatx80_sqrt for the operands that reach it with an exact root
floatx80_sqrt(a) ==
    IF floatx80_is_nan(a) THEN propagateFloatx80NaN(a, a)
    ELSE IF floatx80_is_zero(a) \/ floatx80_is_inf(a) \/ a = fx80_one THEN Exact(a)
    ELSE OutOfDomain

x87_fsqrt ==
    /\ CanStep
    /\ Do("x87_fsqrt", 0,
          WriteSt0(IF X87_IS_ST_EMPTY(Cur, 0) THEN Underflow(Cur)
                   ELSE LET value == ST(Cur, 0)
                        IN  IF (~floatx80_is_zero(value) /\ SignOf(value) = 1)
                               \/ floatx80_is_denormal(value)
                            THEN [s |-> SwOr(Cur, X87_SW_IE), result |-> fx80_inan]
                            ELSE LET r == floatx80_sqrt(value)
                                 IN  [s |-> Lib(Cur, r), result |-> r.v]))

x87_f2xm1 ==
    /\ CanStep
    /\ Do("x87_f2xm1", 0,
          WriteSt0(IF X87_IS_ST_EMPTY(Cur, 0) THEN Underflow(Cur)
                   ELSE LET x == fx80_to_double(Cur, ST(Cur, 0))
                        IN  double_to_fx80(x.s, HostPow2m1(x.d))))

x87_fyl2x ==
    /\ CanStep
    /\ Do("x87_fyl2x", 0,
          WriteSt1Pop(IF X87_IS_ST_EMPTY(Cur, 0) \/ X87_IS_ST_EMPTY(Cur, 1)
                      THEN Underflow(Cur)
                      ELSE LET x == ST(Cur, 0)
                               y == ST(Cur, 1)
                           IN  IF SignOf(x) = 1
                               THEN [s |-> SwOr(Cur, X87_SW_IE), result |-> fx80_inan]
                               ELSE LET d64 == fx80_to_double(Cur, x)
                                        l2x == double_to_fx80(d64.s, HostLog2(d64.d))
                                        r == floatx80_mul(l2x.result, y, Cur.rm)
                                    IN  [s |-> Lib(l2x.s, r), result |-> r.v]))

x87_fyl2xp1 ==
    /\ CanStep
    /\ Do("x87_fyl2xp1", 0,
          WriteSt1Pop(IF X87_IS_ST_EMPTY(Cur, 0) \/ X87_IS_ST_EMPTY(Cur, 1)
                      THEN Underflow(Cur)
                      ELSE LET x == ST(Cur, 0)
                               y == ST(Cur, 1)
                               d64 == fx80_to_double(Cur, x)
                               l2x1 == double_to_fx80(d64.s, HostLog2p1(d64.d))
                               r == floatx80_mul(l2x1.result, y, Cur.rm)
                           IN  [s |-> Lib(l2x1.s, r), result |-> r.v]))

x87_fptan ==
    /\ CanStep
    /\ Do("x87_fptan", 0,
          IF X87_IS_ST_EMPTY(Cur, 0)
          THEN WritePush(x87_set_stack_underflow(Cur), fx80_inan, fx80_inan)
          ELSE IF ~X87_IS_ST_EMPTY(Cur, 7)
          THEN WritePush(x87_set_stack_overflow(Cur), fx80_inan, fx80_inan)
          ELSE LET x == fx80_to_double(Cur, ST(Cur, 0))
                   r == double_to_fx80(x.s, HostTan(x.d))
               IN  WritePush(SwClear(r.s, X87_SW_C2), r.result, fx80_one))

x87_fpatan ==
    /\ CanStep
    /\ Do("x87_fpatan", 0,
          WriteSt1Pop(IF X87_IS_ST_EMPTY(Cur, 0) THEN Underflow(Cur)
                      ELSE LET y == fx80_to_double(Cur, ST(Cur, 1))
                               x == fx80_to_double(y.s, ST(Cur, 0))
                           IN  double_to_fx80(x.s, HostAtan2(y.d, x.d))))

x87_fsin ==
    /\ CanStep
    /\ Do("x87_fsin", 0,
          WriteSt0(IF X87_IS_ST_EMPTY(Cur, 0) THEN Underflow(Cur)
                   ELSE LET x == fx80_to_double(Cur, ST(Cur, 0))
                            r == double_to_fx80(x.s, HostSin(x.d))
                        IN  [s |-> SwClear(r.s, X87_SW_C2), result |-> r.result]))

x87_fcos ==
    /\ CanStep
    /\ Do("x87_fcos", 0,
          WriteSt0(IF X87_IS_ST_EMPTY(Cur, 0) THEN Underflow(Cur)
                   ELSE LET x == fx80_to_double(Cur, ST(Cur, 0))
                            r == double_to_fx80(x.s, HostCos(x.d))
                        IN  [s |-> SwClear(r.s, X87_SW_C2), result |-> r.result]))

x87_fsincos ==
    /\ CanStep
    /\ Do("x87_fsincos", 0,
          IF X87_IS_ST_EMPTY(Cur, 0)
          THEN WritePush(x87_set_stack_underflow(Cur), fx80_inan, fx80_inan)
          ELSE IF ~X87_IS_ST_EMPTY(Cur, 7)
          THEN WritePush(x87_set_stack_overflow(Cur), fx80_inan, fx80_inan)
          ELSE LET sd == fx80_to_double(Cur, ST(Cur, 0))
                   cd == fx80_to_double(sd.s, ST(Cur, 0))
                   sr == double_to_fx80(cd.s, HostSin(sd.d))
                   cr == double_to_fx80(sr.s, HostCos(cd.d))
               IN  WritePush(SwClear(cr.s, X87_SW_C2), sr.result, cr.result))

(***************************************************************************)
(* Load data (x87ops.c:2579-2785).  flt: the handler's memory read faults  *)
(* and the handler ends there, keeping what it had changed before.         *)
(***************************************************************************)
I64Set == {0, 3}
BcdSet == {FX(0, 0, 0, 0, 21), FX(32768, 0, 0, 0, 0)}

Faulted(s) == [s EXCEPT !.fault = TRUE]

\* the NaN and denormal screen of the m32real and m64real loads
LoadScreen(s, r) ==
    LET s2 == SwClear(Lib(s, r), X87_SW_C1)
    IN  IF floatx80_is_signaling_nan(r.v) \/ floatx80_is_denormal(r.v)
        THEN [s |-> SwOr(s2, X87_SW_IE), result |-> fx80_inan]
        ELSE [s |-> s2, result |-> r.v]

\* m is the converted operand [v, f, ok]
LoadReal(s, m, flt) ==
    LET s1 == x87_dec_stack(s)
    IN  IF s1.ret = 1
        THEN (IF flt THEN Faulted(s1) ELSE WriteSt0(LoadScreen(s1, m)))
        ELSE WriteSt0([s |-> s1, result |-> fx80_inan])

x87_fld_m32real ==
    /\ CanStep
    /\ \E m \in M32Set, flt \in BOOLEAN :
           Do("x87_fld_m32real", 0, LoadReal(Cur, float32_to_floatx80(m), flt))

x87_fld_m64real ==
    /\ CanStep
    /\ \E m \in M64Set, flt \in BOOLEAN :
           Do("x87_fld_m64real", 0, LoadReal(Cur, float64_to_floatx80(m), flt))

LoadM80(s, m, flt) ==
    LET s1 == x87_dec_stack(s)
    IN  IF s1.ret = 1
        THEN (IF flt THEN Faulted(SwClear(s1, X87_SW_C1))
              ELSE WriteSt0([s |-> SwClear(s1, X87_SW_C1), result |-> m]))
        ELSE WriteSt0([s |-> s1, result |-> fx80_inan])

x87_fld_m80real ==
    /\ CanStep
    /\ \E m \in M80Set, flt \in BOOLEAN :
           Do("x87_fld_m80real", 0, LoadM80(Cur, m, flt))

x87_fld_sti ==
    /\ CanStep
    /\ \E i \in StiSet :
           Do("x87_fld_sti", i,
              LET s1 == x87_dec_stack(Cur)
              IN  IF s1.ret = 1
                  THEN WriteSt0([s |-> SwClear(s1, X87_SW_C1),
                                 result |-> ST(s1, (i + 1) % 8)])
                  ELSE WriteSt0([s |-> s1, result |-> fx80_inan]))

\* the integer loads: value is the converted operand
LoadInt(s, value, flt) ==
    LET s1 == x87_dec_stack(s)
    IN  IF s1.ret = 0
        THEN WriteSt0([s |-> s1, result |-> fx80_inan])
        ELSE IF flt THEN Faulted(SwClear(s1, X87_SW_C1))
        ELSE WriteSt0([s |-> SwClear(s1, X87_SW_C1), result |-> value])

x87_fild_m16int ==
    /\ CanStep
    /\ \E m \in I16Set, flt \in BOOLEAN :
           Do("x87_fild_m16int", 0, LoadInt(Cur, int32_to_floatx80(m), flt))

x87_fild_m32int ==
    /\ CanStep
    /\ \E m \in I32Set, flt \in BOOLEAN :
           Do("x87_fild_m32int", 0, LoadInt(Cur, int32_to_floatx80(m), flt))

x87_fild_m64int ==
    /\ CanStep
    /\ \E m \in I64Set, flt \in BOOLEAN :
           Do("x87_fild_m64int", 0, LoadInt(Cur, int32_to_floatx80(m), flt))

(***************************************************************************)
(* The packed-BCD digit loops of x87_fbld (x87ops.c:2762-2775) and         *)
(* x87_fbstp (x87ops.c:3148-3160).  A UINT64 is three base-10^6 limbs      *)
(* <<u0, u1, u2>>, u0 the least significant.                               *)
(***************************************************************************)
\* the UINT64 of an integer 0 <= n < 2^31
U64(n) == <<n % 1000000, n \div 1000000, 0>>
\* u64 % 10
U64Mod10(u) == u[1] % 10
\* u64 / 10
U64Div10(u) ==
    <<u[1] \div 10 + (u[2] % 10) * 100000,
      u[2] \div 10 + (u[3] % 10) * 100000,
      u[3] \div 10>>
\* m64val * 10 + d
U64MulAdd10(m, d) ==
    <<(m[1] * 10 + d) % 1000000,
      (m[2] * 10 + (m[1] * 10 + d) \div 1000000) % 1000000,
      m[3] * 10 + (m[2] * 10 + (m[1] * 10 + d) \div 1000000) \div 1000000>>
\* (low >> i) & 0xf
Nibble(low, i) == (low[i \div 16 + 1] \div Pow2(i % 16)) % 16

RECURSIVE BcdUnpackLow(_, _, _)
\* for (i = 60; i >= 0; i -= 4) { m64val *= 10; m64val += (low >> i) & 0xf; }
BcdUnpackLow(low, i, m64val) ==
    IF i < 0 THEN m64val
    ELSE BcdUnpackLow(low, i - 4, U64MulAdd10(m64val, Nibble(low, i)))

\* the accumulation with the two digits of value.high taken in swapped order
BcdUnpack_swapped(value) ==
    BcdUnpackLow(value.low, 60,
                 U64((value.high % 16) * 10 + ((value.high \div 16) % 16)))

\* m64val of x87_fbld
BcdUnpack(value) ==
    BcdUnpackLow(value.low, 60,
                 U64(((value.high \div 16) % 16) * 10 + (value.high % 16)))

RECURSIVE BcdPackLow(_, _, _)
\* for (i = 0; i < 64; i += 4) { result.low += (u64 % 10) << i; u64 /= 10; }
BcdPackLow(u64, i, low) ==
    IF i >= 64 THEN [low |-> low, u64 |-> u64]
    ELSE BcdPackLow(U64Div10(u64), i + 4,
                    [low EXCEPT ![i \div 16 + 1] = @ + U64Mod10(u64) * Pow2(i % 16)])

\* result.high from what the loop left of u64, and the sign bit
BcdPackHigh(p, sign) ==
    [high |-> U64Mod10(p.u64) + U64Mod10(U64Div10(p.u64)) * 16 + sign,
     low |-> p.low]

\* result of x87_fbstp for the magnitude u64 and the sign bit (0 or 0x8000)
BcdPack(u64, sign) == BcdPackHigh(BcdPackLow(u64, 0, <<0, 0, 0, 0>>), sign)

\* int64_to_floatx80(m64val) with the sign, for m64val below 2^31
BcdFloat(m64val, sign) ==
    [high |-> BitOr(int32_to_floatx80(m64val[2] * 1000000 + m64val[1]).high, sign),
     low |-> int32_to_floatx80(m64val[2] * 1000000 + m64val[1]).low]

BcdValue(value) == BcdFloat(BcdUnpack(value), BitAnd(value.high, 32768))

x87_fbld ==
    /\ CanStep
    /\ \E m \in BcdSet, flt \in BOOLEAN :
           Do("x87_fbld", 0, LoadInt(Cur, BcdValue(m), flt))

(***************************************************************************)
(* SoftFloat comparison and integer conversion.                            *)
(***************************************************************************)
LowLt(x, y) ==
    \/ x[4] < y[4]
    \/ x[4] = y[4] /\ x[3] < y[3]
    \/ x[4] = y[4] /\ x[3] = y[3] /\ x[2] < y[2]
    \/ x[4] = y[4] /\ x[3] = y[3] /\ x[2] = y[2] /\ x[1] < y[1]

lt128(a, b) == a.high < b.high \/ (a.high = b.high /\ LowLt(a.low, b.low))
le128(a, b) == a.high < b.high \/ (a.high = b.high /\ ~LowLt(b.low, a.low))
BothZero(a, b) ==
    /\ ExpOf(a) = 0 /\ ExpOf(b) = 0
    /\ a.low = <<0, 0, 0, 0>> /\ b.low = <<0, 0, 0, 0>>

\* results are [b, f]: the truth value and the flags raised
floatx80_lt(a, b) ==
    IF floatx80_is_nan(a) \/ floatx80_is_nan(b)
    THEN [b |-> FALSE, f |-> {"float_flag_invalid"}]
    ELSE [b |-> IF SignOf(a) # SignOf(b) THEN SignOf(a) = 1 /\ ~BothZero(a, b)
                ELSE IF SignOf(a) = 1 THEN lt128(b, a) ELSE lt128(a, b),
          f |-> {}]

floatx80_le(a, b) ==
    IF floatx80_is_nan(a) \/ floatx80_is_nan(b)
    THEN [b |-> FALSE, f |-> {"float_flag_invalid"}]
    ELSE [b |-> IF SignOf(a) # SignOf(b) THEN SignOf(a) = 1 \/ BothZero(a, b)
                ELSE IF SignOf(a) = 1 THEN le128(b, a) ELSE le128(a, b),
          f |-> {}]

\* M / 2^k rounded to an integer under rm, for a value of sign sgn
RoundShift(M, k, sgn, rm) ==
    LET n == M \div Pow2(k)
        rem == M % Pow2(k)
        half == Pow2(k - 1)
        cmpHalf == IF rem > half THEN "gt" ELSE IF rem = half THEN "eq" ELSE "lt"
    IN  IF RoundsUp(rm, sgn, rem # 0, cmpHalf, n % 2 = 1) THEN n + 1 ELSE n

SignedInt(sgn, n) ==
    IF n = 0 THEN Zero(sgn) ELSE WithSign(int32_to_floatx80(n), sgn)

floatx80_round_to_int(a, rm) ==
    IF ExpOf(a) >= 16446
    THEN (IF floatx80_is_nan(a) THEN propagateFloatx80NaN(a, a) ELSE Exact(a))
    ELSE IF ExpOf(a) < 16383
    THEN (IF ExpOf(a) = 0 /\ ~LowShl1NonZero(a.low) THEN Exact(a)
          ELSE [v |-> CASE rm = "float_round_nearest_even" ->
                              IF ExpOf(a) = 16382 /\ LowShl1NonZero(a.low)
                              THEN WithSign(fx80_one, SignOf(a)) ELSE Zero(SignOf(a))
                        [] rm = "float_round_down" ->
                              IF SignOf(a) = 1 THEN fx80_mone ELSE fx80_zero
                        [] rm = "float_round_up" ->
                              IF SignOf(a) = 1 THEN Zero(1) ELSE fx80_one
                        [] rm = "float_round_to_zero" -> Zero(SignOf(a)),
                f |-> {"float_flag_inexact"}, ok |-> TRUE])
    ELSE IF ~SimpleFin(a) THEN OutOfDomain
    ELSE IF Exp2(a) >= 0 THEN Exact(a)
    ELSE LET n == RoundShift(Mant(a), -Exp2(a), SignOf(a), rm)
         IN  [v |-> SignedInt(SignOf(a), n),
              f |-> IF Mant(a) % Pow2(-Exp2(a)) # 0 THEN {"float_flag_inexact"} ELSE {},
              ok |-> TRUE]

\* the integer value of an integral floatx80 below 2^31 in magnitude
IntOf(a) ==
    IF floatx80_is_zero(a) THEN [q |-> 0, f |-> {}, ok |-> TRUE]
    ELSE IF SimpleFin(a) /\ Exp2(a) >= 0 /\ ExpOf(a) < 16383 + 31
    THEN [q |-> (IF SignOf(a) = 1 THEN -1 ELSE 1) * Mant(a) * Pow2(Exp2(a)),
          f |-> {}, ok |-> TRUE]
    ELSE [q |-> 0, f |-> {}, ok |-> FALSE]

\* floatx80_to_int32 and floatx80_to_int64 round under the rounding mode
floatx80_to_int(a, rm) ==
    LET r == floatx80_round_to_int(a, rm)
        q == IntOf(r.v)
    IN  [q |-> q.q, f |-> r.f, ok |-> r.ok /\ q.ok]

\* two's complement words, least significant first
Words16(n) == <<IF n >= 0 THEN n % 65536 ELSE 65535 - ((-n - 1) % 65536)>>

Words32(n) ==
    IF n >= 0 THEN <<n % 65536, n \div 65536>>
    ELSE <<65535 - ((-n - 1) % 65536), 65535 - ((-n - 1) \div 65536)>>

Words64(n) ==
    Words32(n) \o (IF n >= 0 THEN <<0, 0>> ELSE <<65535, 65535>>)

Words80(fx) == fx.low \o <<fx.high>>

WordsF32(x) == <<x.frac % 65536, x.sign * 32768 + x.exp * 128 + x.frac \div 65536>>

WordsF64(x) ==
    <<x.frac[1], x.frac[2], x.frac[3], x.sign * 32768 + x.exp * 16 + x.frac[4]>>

fx80_int16_max == FX(16397, 65534, 0, 0, 0)
fx80_int32_max == FX(16413, 65535, 65534, 0, 0)
fx80_int64_min == FX(49214, 32768, 0, 0, 0)
fx80_int64_max == FX(16445, 65535, 65535, 65535, 65534)

(***************************************************************************)
(* Store data (x87ops.c:2794-3170).  mem holds the last operand written:   *)
(* its format and its 16-bit words, least significant first; at is, for a  *)
(* state image, the FPU state it was written from.                         *)
(***************************************************************************)
Write(s, fmt, words) ==
    [s EXCEPT !.mem = [fmt |-> fmt, val |-> words, at |-> NoPre]]

WriteImage(s, fmt, words) ==
    [s EXCEPT !.mem = [fmt |-> fmt, val |-> words, at |-> Pre(s)]]

\* the operand fetch shared by the FST/FSTP forms
StoreFetch(s) ==
    IF X87_IS_ST_EMPTY(s, 0) THEN Underflow(s)
    ELSE [s |-> SwClear(s, X87_SW_C1), result |-> ST(s, 0)]

StoreM32(s, pop) ==
    LET p == StoreFetch(s)
        s1 == x87_check_exceptions(p.s)
        r == floatx80_to_float32(p.result, s1.rm)
        s2 == Write(Lib(s1, r), "m32real", WordsF32(r.v))
    IN  IF s1.ret = 1 THEN (IF pop THEN x87_inc_stack(s2) ELSE s2) ELSE s1

StoreM64(s, pop) ==
    LET p == StoreFetch(s)
        s1 == x87_check_exceptions(p.s)
        r == floatx80_to_float64(p.result, s1.rm)
        s2 == Write(Lib(s1, r), "m64real", WordsF64(r.v))
    IN  IF s1.ret = 1 THEN (IF pop THEN x87_inc_stack(s2) ELSE s2) ELSE s1

StoreSti(s, i, pop) ==
    LET p == StoreFetch(s)
        s1 == x87_check_exceptions(p.s)
        s2 == x87_write_stack(s1, i, p.result, TRUE)
    IN  IF s1.ret = 1 THEN (IF pop THEN x87_inc_stack(s2) ELSE s2) ELSE s1

x87_fst_m32real ==
    /\ CanStep
    /\ Do("x87_fst_m32real", 0, StoreM32(Cur, FALSE))

x87_fst_m64real ==
    /\ CanStep
    /\ Do("x87_fst_m64real", 0, StoreM64(Cur, FALSE))

x87_fst_sti ==
    /\ CanStep
    /\ \E i \in StiSet : Do("x87_fst_sti", i, StoreSti(Cur, i, FALSE))

x87_fstp_m32real ==
    /\ CanStep
    /\ Do("x87_fstp_m32real", 0, StoreM32(Cur, TRUE))

x87_fstp_m64real ==
    /\ CanStep
    /\ Do("x87_fstp_m64real", 0, StoreM64(Cur, TRUE))

x87_fstp_m80real ==
    /\ CanStep
    /\ Do("x87_fstp_m80real", 0,
          LET p == StoreFetch(Cur)
              s1 == x87_check_exceptions(p.s)
          IN  IF s1.ret = 1
              THEN x87_inc_stack(Write(s1, "m80real", Words80(p.result)))
              ELSE s1)

x87_fstp_sti ==
    /\ CanStep
    /\ \E i \in StiSet : Do("x87_fstp_sti", i, StoreSti(Cur, i, TRUE))

\* the integer computed by the FIST/FISTP forms: [s, words]
FistFetch(s, lowerLim, upperLim, indefinite, wordsOf(_)) ==
    IF X87_IS_ST_EMPTY(s, 0)
    THEN [s |-> x87_set_stack_underflow(s), words |-> indefinite]
    ELSE LET fx80 == floatx80_round_to_int(ST(s, 0), s.rm)
             lt == floatx80_lt(fx80.v, lowerLim)
             le == floatx80_le(fx80.v, upperLim)
             s1 == SwClear(Raise(Lib(s, fx80), lt.f), X87_SW_C1)
         IN  IF lt.b THEN [s |-> s1, words |-> indefinite]
             ELSE IF ~le.b THEN [s |-> Raise(s1, le.f), words |-> indefinite]
             ELSE LET q == floatx80_to_int(fx80.v, s.rm)
                  IN  [s |-> Lib(s1, q), words |-> wordsOf(q.q)]

FistCommit(p, fmt, pop) ==
    LET s1 == x87_check_exceptions(p.s)
        s2 == Write(s1, fmt, p.words)
    IN  IF s1.ret = 1 THEN (IF pop THEN x87_inc_stack(s2) ELSE s2) ELSE s1

Fist16(s) ==
    FistFetch(s, int32_to_floatx80(-32768), fx80_int16_max, <<32768>>, Words16)
\* Fist32 storing zero where the integer indefinite belongs
Fist32_zero(s) ==
    FistFetch(s, fx80_int32_min, fx80_int32_max, <<0, 0>>, Words32)
Fist32(s) ==
    FistFetch(s, fx80_int32_min, fx80_int32_max, <<0, 32768>>, Words32)
Fist64(s) ==
    FistFetch(s, fx80_int64_min, fx80_int64_max, <<0, 0, 0, 32768>>, Words64)

x87_fist_m16int ==
    /\ CanStep
    /\ Do("x87_fist_m16int", 0, FistCommit(Fist16(Cur), "m16int", FALSE))

x87_fist_m32int ==
    /\ CanStep
    /\ Do("x87_fist_m32int", 0, FistCommit(Fist32(Cur), "m32int", FALSE))

x87_fistp_m16int ==
    /\ CanStep
    /\ Do("x87_fistp_m16int", 0, FistCommit(Fist16(Cur), "m16int", TRUE))

x87_fistp_m32int ==
    /\ CanStep
    /\ Do("x87_fistp_m32int", 0, FistCommit(Fist32(Cur), "m32int", TRUE))

x87_fistp_m64int ==
    /\ CanStep
    /\ Do("x87_fistp_m64int", 0, FistCommit(Fist64(Cur), "m64int", TRUE))

x87_fbstp ==
    /\ CanStep
    /\ Do("x87_fbstp", 0,
          LET p == IF X87_IS_ST_EMPTY(Cur, 0) THEN Underflow(Cur)
                   ELSE LET u64 == floatx80_to_int(floatx80_abs(ST(Cur, 0)), Cur.rm)
                        IN  [s |-> Lib([Cur EXCEPT !.ok = u64.q < 100000000], u64),
                             result |-> BcdPack(U64(u64.q),
                                                BitAnd(ST(Cur, 0).high, 32768))]
              s1 == x87_check_exceptions(p.s)
          IN  IF s1.ret = 1
              THEN x87_inc_stack(Write(s1, "m80bcd", Words80(p.result)))
              ELSE s1)

(***************************************************************************)
(* Constant load (x87ops.c:3179-3393).                                     *)
(***************************************************************************)
\* value and tag are what the handler loads when the push succeeds
LoadConst(s, value, tag) ==
    LET s1 == x87_dec_stack(s)
        push == s1.ret = 1
        s2 == x87_check_exceptions(IF push THEN SwClear(s1, X87_SW_C1) ELSE s1)
        s3 == x87_set_tag(s2, ST_TO_PHYS(s2, 0), IF push THEN tag ELSE X87_TW_SPECIAL)
    IN  IF s2.ret = 1
        THEN x87_write_stack(s3, 0, IF push THEN value ELSE fx80_inan, FALSE)
        ELSE s2

\* UpOrNearest taking round up only
UpOrNearest_up_only(s) == X87_RC(s) = X87_CW_RC_UP

UpOrNearest(s) == X87_RC(s) = X87_CW_RC_UP \/ X87_RC(s) = X87_CW_RC_NEAREST

x87_fld1 ==
    /\ CanStep
    /\ Do("x87_fld1", 0, LoadConst(Cur, fx80_one, X87_TW_VALID))

x87_fldl2t ==
    /\ CanStep
    /\ Do("x87_fldl2t", 0,
          LoadConst(Cur,
                    FX(16384, 54426, 30795, 52507,
                       IF X87_RC(Cur) = X87_CW_RC_UP THEN 35583 ELSE 35582),
                    X87_TW_VALID))

x87_fldl2e ==
    /\ CanStep
    /\ Do("x87_fldl2e", 0,
          LoadConst(Cur,
                    FX(16383, 47274, 15145, 23575,
                       IF UpOrNearest(Cur) THEN 61628 ELSE 61627),
                    X87_TW_VALID))

x87_fldpi ==
    /\ CanStep
    /\ Do("x87_fldpi", 0,
          LoadConst(Cur,
                    FX(16384, 51471, 55970, 8552,
                       IF UpOrNearest(Cur) THEN 49717 ELSE 49716),
                    X87_TW_VALID))

x87_fldlg2 ==
    /\ CanStep
    /\ Do("x87_fldlg2", 0,
          LoadConst(Cur,
                    FX(16381, 39456, 39556, 64463,
                       IF UpOrNearest(Cur) THEN 63385 ELSE 63384),
                    X87_TW_VALID))

x87_fldln2 ==
    /\ CanStep
    /\ Do("x87_fldln2", 0,
          LoadConst(Cur,
                    FX(16382, 45426, 6135, 53711,
                       IF UpOrNearest(Cur) THEN 31148 ELSE 31147),
                    X87_TW_VALID))

x87_fldz ==
    /\ CanStep
    /\ Do("x87_fldz", 0, LoadConst(Cur, fx80_zero, X87_TW_ZERO))

(***************************************************************************)
(* Miscellaneous (x87ops.c:3402-3541).                                     *)
(***************************************************************************)
x87_fnop ==
    /\ CanStep
    /\ Do("x87_fnop", 0, Cur)

\* if (x87_check_exceptions()) x87_write_stack(0, value, FALSE);
WriteSt0NoTag(p) ==
    LET s1 == x87_check_exceptions(p.s)
    IN  IF s1.ret = 1 THEN x87_write_stack(s1, 0, p.result, FALSE) ELSE s1

x87_fchs ==
    /\ CanStep
    /\ Do("x87_fchs", 0,
          WriteSt0NoTag(IF X87_IS_ST_EMPTY(Cur, 0) THEN Underflow(Cur)
                        ELSE [s |-> SwClear(Cur, X87_SW_C1), result |-> Neg(ST(Cur, 0))]))

x87_fabs ==
    /\ CanStep
    /\ Do("x87_fabs", 0,
          WriteSt0NoTag(IF X87_IS_ST_EMPTY(Cur, 0) THEN Underflow(Cur)
                        ELSE [s |-> SwClear(Cur, X87_SW_C1),
                              result |-> floatx80_abs(ST(Cur, 0))]))

\* floatx80_scale: a * 2^trunc(b), for NaNs, infinities, zeros, and normal
\* a with a small integral or fractional b
floatx80_scale(a, b) ==
    IF floatx80_is_nan(a) \/ floatx80_is_nan(b) THEN propagateFloatx80NaN(a, b)
    ELSE IF floatx80_is_inf(a)
    THEN (IF floatx80_is_inf(b) /\ SignOf(b) = 1 THEN Invalid ELSE Exact(a))
    ELSE IF floatx80_is_inf(b)
    THEN (IF floatx80_is_zero(a)
          THEN (IF SignOf(b) = 0 THEN Invalid ELSE Exact(a))
          ELSE IF ExpOf(a) = 0 THEN OutOfDomain
          ELSE Exact(IF SignOf(b) = 1 THEN Zero(SignOf(a)) ELSE Inf(SignOf(a))))
    ELSE IF floatx80_is_zero(a) \/ floatx80_is_zero(b) THEN Exact(a)
    ELSE IF ExpOf(a) = 0 \/ ExpOf(b) = 0 \/ a.low[4] < 32768 \/ b.low[4] < 32768
    THEN OutOfDomain
    ELSE IF ExpOf(b) < 16383 THEN Exact(a)
    ELSE IF ExpOf(b) > 16383 + 6 THEN OutOfDomain
    ELSE LET n == b.low[4] \div Pow2(15 - (ExpOf(b) - 16383))
             e == IF SignOf(b) = 1 THEN ExpOf(a) - n ELSE ExpOf(a) + n
         IN  IF e \in 1..32766
             THEN Exact([a EXCEPT !.high = SignOf(a) * 32768 + e])
             ELSE OutOfDomain

x87_fscale ==
    /\ CanStep
    /\ Do("x87_fscale", 0,
          WriteSt0NoTag(IF X87_IS_ST_EMPTY(Cur, 0) \/ X87_IS_ST_EMPTY(Cur, 1)
                        THEN Underflow(Cur)
                        ELSE LET r == floatx80_scale(ST(Cur, 0), ST(Cur, 1))
                             IN  [s |-> Lib(SwClear(Cur, X87_SW_C1), r),
                                  result |-> r.v]))

x87_frndint ==
    /\ CanStep
    /\ Do("x87_frndint", 0,
          WriteSt0(IF X87_IS_ST_EMPTY(Cur, 0) THEN Underflow(Cur)
                   ELSE LET r == floatx80_round_to_int(ST(Cur, 0), Cur.rm)
                        IN  [s |-> Lib(SwClear(Cur, X87_SW_C1), r), result |-> r.v]))

\* [b, f]: equality, with the flags raised
floatx80_eq(a, b) ==
    IF floatx80_is_nan(a) \/ floatx80_is_nan(b)
    THEN [b |-> FALSE,
          f |-> IF floatx80_is_signaling_nan(a) \/ floatx80_is_signaling_nan(b)
                THEN {"float_flag_invalid"} ELSE {}]
    ELSE [b |-> a.low = b.low /\ (a.high = b.high
                                  \/ (a.low = <<0, 0, 0, 0>> /\ ExpOf(a) = 0
                                      /\ ExpOf(b) = 0)),
          f |-> {}]

x87_fxtract ==
    /\ CanStep
    /\ Do("x87_fxtract", 0,
          IF X87_IS_ST_EMPTY(Cur, 0)
          THEN WritePush(x87_set_stack_underflow(Cur), fx80_inan, fx80_inan)
          ELSE IF ~X87_IS_ST_EMPTY(Cur, 7)
          THEN WritePush(x87_set_stack_overflow(Cur), fx80_inan, fx80_inan)
          ELSE LET value == ST(Cur, 0)
                   eq == floatx80_eq(value, fx80_zero)
                   s1 == Raise(Cur, eq.f)
               IN  IF eq.b
                   THEN WritePush(SwOr(s1, X87_SW_ZE), fx80_ninf, fx80_zero)
                   ELSE WritePush(s1, SignedInt(IF ExpOf(value) < 16383 THEN 1 ELSE 0,
                                                IF ExpOf(value) < 16383
                                                THEN 16383 - ExpOf(value)
                                                ELSE ExpOf(value) - 16383),
                                  [value EXCEPT !.high = SignOf(value) * 32768 + 16383]))

(***************************************************************************)
(* Comparison (x87ops.c:3549-4338).                                        *)
(***************************************************************************)
CBits == X87_SW_C3 + X87_SW_C2 + X87_SW_C1 + X87_SW_C0

x87_ftst ==
    /\ CanStep
    /\ Do("x87_ftst", 0,
          x87_check_exceptions(
              IF X87_IS_ST_EMPTY(Cur, 0)
              THEN SwOr(x87_set_stack_underflow(Cur), X87_SW_C3 + X87_SW_C2 + X87_SW_C0)
              ELSE LET s1 == SwClear(Cur, CBits)
                       eq == floatx80_eq(ST(Cur, 0), fx80_zero)
                       lt == floatx80_lt(ST(Cur, 0), fx80_zero)
                   IN  IF floatx80_is_nan(ST(Cur, 0))
                       THEN SwOr(s1, X87_SW_C0 + X87_SW_C2 + X87_SW_C3 + X87_SW_IE)
                       ELSE SwOr(s1, (IF eq.b THEN X87_SW_C3 ELSE 0)
                                     + (IF lt.b THEN X87_SW_C0 ELSE 0))))

Fxam(s) ==
    LET value == ST(s, 0)
        s1 == SwClear(s, CBits)
        s2 == IF X87_IS_ST_EMPTY(s, 0) THEN SwOr(s1, X87_SW_C3 + X87_SW_C0)
              ELSE IF floatx80_is_zero(value) THEN SwOr(s1, X87_SW_C3)
              ELSE s1
        s3 == IF floatx80_is_nan(value) THEN SwOr(s2, X87_SW_C0)
              ELSE IF floatx80_is_inf(value) THEN SwOr(s2, X87_SW_C2 + X87_SW_C0)
              ELSE SwOr(s2, X87_SW_C2)
    IN  IF SignOf(value) = 1 THEN SwOr(s3, X87_SW_C1) ELSE s3

x87_fxam ==
    /\ CanStep
    /\ Do("x87_fxam", 0, Fxam(Cur))

\* CompareSW with the "equal" and "less" codes exchanged
CompareSW_swapped(s, a, b, nanmode) ==
    LET s1 == SwClear(s, CBits)
        eq == floatx80_eq(a, b)
        lt == floatx80_lt(a, b)
    IN  IF floatx80_is_nan(a) \/ floatx80_is_nan(b)
        THEN SwOr(s1, X87_SW_C0 + X87_SW_C2 + X87_SW_C3 + X87_SW_IE)
        ELSE SwOr(Raise(s1, eq.f \cup lt.f),
                  (IF eq.b THEN X87_SW_C0 ELSE 0) + (IF lt.b THEN X87_SW_C3 ELSE 0))

\* the condition-code result of a comparison.  nanmode "a": ST(0) is
\* tested for NaN (integer forms); "ab": both operands; "u": unordered forms
CompareSW(s, a, b, nanmode) ==
    LET s1 == SwClear(s, CBits)
        eq == floatx80_eq(a, b)
        lt == floatx80_lt(a, b)
        nan == IF nanmode = "a" THEN floatx80_is_nan(a)
               ELSE floatx80_is_nan(a) \/ floatx80_is_nan(b)
    IN  IF nan
        THEN SwOr(s1, X87_SW_C0 + X87_SW_C2 + X87_SW_C3
                      + (IF nanmode # "u" \/ floatx80_is_signaling_nan(a)
                            \/ floatx80_is_signaling_nan(b)
                         THEN X87_SW_IE ELSE 0))
        ELSE SwOr(Raise(s1, eq.f \cup lt.f),
                  (IF eq.b THEN X87_SW_C3 ELSE 0) + (IF lt.b THEN X87_SW_C0 ELSE 0))

CompareUnderflow(s) ==
    SwOr(x87_set_stack_underflow(s), X87_SW_C3 + X87_SW_C2 + X87_SW_C0)

\* x87_check_exceptions, then npop pops when it succeeded
CompareFinish(s, npop) ==
    LET s1 == x87_check_exceptions(s)
    IN  IF s1.ret = 1 /\ npop = 1 THEN x87_inc_stack(s1)
        ELSE IF s1.ret = 1 /\ npop = 2 THEN x87_inc_stack(x87_inc_stack(s1))
        ELSE s1

\* memory forms: m is the converted operand [v, f, ok]
CompareMem(s, m, flt, nanmode, npop) ==
    IF X87_IS_ST_EMPTY(s, 0) THEN CompareFinish(CompareUnderflow(s), npop)
    ELSE IF flt THEN Faulted(SwClear(s, CBits))
    ELSE CompareFinish(CompareSW(MemOperand(s, m), ST(s, 0), m.v, nanmode), npop)

CompareReg(s, i, nanmode, npop) ==
    IF X87_IS_ST_EMPTY(s, 0) \/ X87_IS_ST_EMPTY(s, i)
    THEN CompareFinish(CompareUnderflow(s), npop)
    ELSE CompareFinish(CompareSW(s, ST(s, 0), ST(s, i), nanmode), npop)

x87_ficom_m16int ==
    /\ CanStep
    /\ \E m \in I16Set, flt \in BOOLEAN :
           Do("x87_ficom_m16int", 0,
              CompareMem(Cur, Exact(int32_to_floatx80(m)), flt, "a", 0))

x87_ficom_m32int ==
    /\ CanStep
    /\ \E m \in I32Set, flt \in BOOLEAN :
           Do("x87_ficom_m32int", 0,
              CompareMem(Cur, Exact(int32_to_floatx80(m)), flt, "a", 0))

x87_ficomp_m16int ==
    /\ CanStep
    /\ \E m \in I16Set, flt \in BOOLEAN :
           Do("x87_ficomp_m16int", 0,
              CompareMem(Cur, Exact(int32_to_floatx80(m)), flt, "a", 1))

x87_ficomp_m32int ==
    /\ CanStep
    /\ \E m \in I32Set, flt \in BOOLEAN :
           Do("x87_ficomp_m32int", 0,
              CompareMem(Cur, Exact(int32_to_floatx80(m)), flt, "a", 1))

x87_fcom_m32real ==
    /\ CanStep
    /\ \E m \in M32Set, flt \in BOOLEAN :
           Do("x87_fcom_m32real", 0,
              CompareMem(Cur, float32_to_floatx80(m), flt, "ab", 0))

x87_fcom_m64real ==
    /\ CanStep
    /\ \E m \in M64Set, flt \in BOOLEAN :
           Do("x87_fcom_m64real", 0,
              CompareMem(Cur, float64_to_floatx80(m), flt, "ab", 0))

x87_fcom_sti ==
    /\ CanStep
    /\ \E i \in StiSet : Do("x87_fcom_sti", i, CompareReg(Cur, i, "ab", 0))

x87_fcomp_m32real ==
    /\ CanStep
    /\ \E m \in M32Set, flt \in BOOLEAN :
           Do("x87_fcomp_m32real", 0,
              CompareMem(Cur, float32_to_floatx80(m), flt, "ab", 1))

x87_fcomp_m64real ==
    /\ CanStep
    /\ \E m \in M64Set, flt \in BOOLEAN :
           Do("x87_fcomp_m64real", 0,
              CompareMem(Cur, float64_to_floatx80(m), flt, "ab", 1))

x87_fcomp_sti ==
    /\ CanStep
    /\ \E i \in StiSet : Do("x87_fcomp_sti", i, CompareReg(Cur, i, "ab", 1))

\* the EFLAGS forms
\* SetFlags with ZF and CF exchanged
SetFlags_swapped(s, zf, pf, cf) == [s EXCEPT !.ZF = cf, !.PF = pf, !.CF = zf]
SetFlags(s, zf, pf, cf) == [s EXCEPT !.ZF = zf, !.PF = pf, !.CF = cf]

CompareFlags(s, i, unordered, npop) ==
    IF X87_IS_ST_EMPTY(s, 0) \/ X87_IS_ST_EMPTY(s, i)
    THEN CompareFinish(SetFlags(x87_set_stack_underflow(s), 1, 1, 1), npop)
    ELSE LET s1 == SwClear(s, X87_SW_C1)
             a == ST(s, 0)
             b == ST(s, i)
             eq == floatx80_eq(a, b)
             lt == floatx80_lt(a, b)
         IN  IF unordered /\ (floatx80_is_quiet_nan(a) \/ floatx80_is_quiet_nan(b))
             THEN CompareFinish(SetFlags(s1, 1, 1, 1), npop)
             ELSE IF floatx80_is_nan(a) \/ floatx80_is_nan(b)
             THEN CompareFinish(SwOr(SetFlags(s1, 1, 1, 1), X87_SW_IE), npop)
             ELSE CompareFinish(
                      SetFlags(Raise(s1, eq.f \cup lt.f),
                               IF eq.b THEN 1 ELSE 0, 0, IF lt.b THEN 1 ELSE 0),
                      npop)

x87_fcomi_sti ==
    /\ CanStep
    /\ \E i \in StiSet : Do("x87_fcomi_sti", i, CompareFlags(Cur, i, FALSE, 0))

x87_fcomip_sti ==
    /\ CanStep
    /\ \E i \in StiSet : Do("x87_fcomip_sti", i, CompareFlags(Cur, i, FALSE, 1))

x87_fucomi_sti ==
    /\ CanStep
    /\ \E i \in StiSet : Do("x87_fucomi_sti", i, CompareFlags(Cur, i, TRUE, 0))

x87_fucomip_sti ==
    /\ CanStep
    /\ \E i \in StiSet : Do("x87_fucomip_sti", i, CompareFlags(Cur, i, TRUE, 1))

x87_fcompp ==
    /\ CanStep
    /\ Do("x87_fcompp", 0, CompareReg(Cur, 1, "ab", 2))

x87_fucom_sti ==
    /\ CanStep
    /\ \E i \in StiSet : Do("x87_fucom_sti", i, CompareReg(Cur, i, "u", 0))

x87_fucomp_sti ==
    /\ CanStep
    /\ \E i \in StiSet : Do("x87_fucomp_sti", i, CompareReg(Cur, i, "u", 1))

x87_fucompp ==
    /\ CanStep
    /\ Do("x87_fucompp", 0, CompareReg(Cur, 1, "u", 2))

(***************************************************************************)
(* Control (x87ops.c:4347-4398, 4528-4794).                                *)
(***************************************************************************)
\* control words offered to FLDCW: the reset value, IM or ZM unmasked,
\* single precision, round up, the reserved precision, round down
CwSet == {895, 894, 891, 127, 2943, 383, 1919}

x87_fdecstp ==
    /\ CanStep
    /\ Do("x87_fdecstp", 0,
          x87_check_exceptions(x87_dec_stack(SwClear(Cur, X87_SW_C1))))

Fincstp(s) == x87_check_exceptions(x87_inc_stack(SwClear(s, X87_SW_C1)))

x87_fincstp ==
    /\ CanStep
    /\ Do("x87_fincstp", 0, Fincstp(Cur))

\* Fclex clearing all of SW
Fclex_all(s) == [s EXCEPT !.sw = 0]

Fclex(s) == SwClear(s, 33023)

x87_fclex ==
    /\ CanStep
    /\ Do("x87_fclex", 0, Fclex(Cur))

x87_ffree ==
    /\ CanStep
    /\ \E i \in StiSet :
           Do("x87_ffree", i, x87_set_tag(Cur, ST_TO_PHYS(Cur, i), X87_TW_EMPTY))

x87_finit ==
    /\ CanStep
    /\ Do("x87_finit", 0, x87_reset(Cur))

Fldcw(s, cw) == x87_check_exceptions(x87_write_cw(s, cw))

x87_fldcw ==
    /\ CanStep
    /\ \E cw \in CwSet, flt \in BOOLEAN :
           Do("x87_fldcw", 0, IF flt THEN Faulted(Cur) ELSE Fldcw(Cur, cw))

x87_fstcw ==
    /\ CanStep
    /\ Do("x87_fstcw", 0, Write(Cur, "m16", <<Cur.cw>>))

x87_fstsw_ax ==
    /\ CanStep
    /\ Do("x87_fstsw_ax", 0, Write(Cur, "ax", <<Cur.sw>>))

x87_fstsw_m2byte ==
    /\ CanStep
    /\ Do("x87_fstsw_m2byte", 0, Write(Cur, "m16", <<Cur.sw>>))

Swap(s, i) ==
    LET p0 == ST_TO_PHYS(s, 0)
        pi == ST_TO_PHYS(s, i)
        s1 == [s EXCEPT !.reg = [s.reg EXCEPT ![p0] = s.reg[pi], ![pi] = s.reg[p0]]]
        tag0 == X87_TAG(s1, p0)
        s2 == x87_set_tag(s1, p0, X87_TAG(s1, pi))
    IN  x87_set_tag(s2, pi, tag0)

\* if (x87_check_exceptions()) { swap ST(0) and ST(i), and their tags }
SwapIfOk(s, i) == IF s.ret = 1 THEN Swap(s, i) ELSE s

Fxch(s) ==
    SwapIfOk(x87_check_exceptions(
                 IF X87_IS_ST_EMPTY(s, 0) \/ X87_IS_ST_EMPTY(s, 1)
                 THEN x87_set_stack_underflow(s) ELSE s), 1)

x87_fxch ==
    /\ CanStep
    /\ Do("x87_fxch", 0, Fxch(Cur))

\* ST(i) = fx80_inan; tag SPECIAL; underflow, when ST(i) is empty
FillEmpty(s, i) ==
    IF X87_IS_ST_EMPTY(s, i)
    THEN x87_set_stack_underflow(
             x87_set_tag([s EXCEPT !.reg[ST_TO_PHYS(s, i)] = fx80_inan],
                         ST_TO_PHYS(s, i), X87_TW_SPECIAL))
    ELSE s

FxchSti(s, i) ==
    SwapIfOk(x87_check_exceptions(FillEmpty(FillEmpty(s, 0), i)), i)

x87_fxch_sti ==
    /\ CanStep
    /\ \E i \in StiSet : Do("x87_fxch_sti", i, FxchSti(Cur, i))

(***************************************************************************)
(* Environment and state images (x87ops.c:4536-4720).  An image in memory  *)
(* is a sequence of 16-bit words; words the handler does not write are 0.  *)
(***************************************************************************)
\* (m_cr[0] & 1) | (m_operand_size & 1) << 1
Layout(s) == (s.cr0 % 2) + 2 * (s.opsize % 2)
\* word offsets of sw, tw and the register area
SwWord(wide) == IF wide THEN 2 ELSE 1
TwWord(wide) == IF wide THEN 4 ELSE 2
RegWord(wide) == IF wide THEN 14 ELSE 7

Header(s, wide) ==
    [k \in 1..RegWord(wide) |->
        IF k = 1 THEN s.cw
        ELSE IF k = SwWord(wide) + 1 THEN s.sw
        ELSE IF k = TwWord(wide) + 1 THEN s.tw
        ELSE 0]

\* the eight registers in stack order, five words each
RegWords(s) ==
    Words80(ST(s, 0)) \o Words80(ST(s, 1)) \o Words80(ST(s, 2)) \o Words80(ST(s, 3))
        \o Words80(ST(s, 4)) \o Words80(ST(s, 5)) \o Words80(ST(s, 6))
        \o Words80(ST(s, 7))

\* READ80 at word offset w of buf
Read80(buf, w) ==
    [high |-> buf[w + 5], low |-> <<buf[w + 1], buf[w + 2], buf[w + 3], buf[w + 4]>>]

x87_fstenv ==
    /\ CanStep
    /\ Do("x87_fstenv", 0, Write(Cur, "env", Header(Cur, Layout(Cur) >= 2)))

\* the image with the registers in physical order m_x87_reg[0..7]
StateImage_phys(s, wide) ==
    Header(s, wide) \o Words80(s.reg[0]) \o Words80(s.reg[1]) \o Words80(s.reg[2])
        \o Words80(s.reg[3]) \o Words80(s.reg[4]) \o Words80(s.reg[5])
        \o Words80(s.reg[6]) \o Words80(s.reg[7])

\* the image x87_fsave writes: the header of the layout, then ST(0)..ST(7)
StateImage(s, wide) == Header(s, wide) \o RegWords(s)

Fsave(s) == WriteImage(s, "state", StateImage(s, Layout(s) >= 2))

x87_fsave ==
    /\ CanStep
    /\ Do("x87_fsave", 0, Fsave(Cur))

\* the loop of FRSTOR: registers 0..n-1 restored from word offset base
RECURSIVE RestoreRegs(_, _, _, _)
RestoreRegs(s, buf, base, n) ==
    IF n = 0 THEN s
    ELSE x87_write_stack(RestoreRegs(s, buf, base, n - 1), n - 1,
                         Read80(buf, base + 5 * (n - 1)), FALSE)

\* reads stops the handler at its reads-th memory read (0: no fault)
RestoreHeader(s, buf, wide, reads) ==
    IF reads = 1 THEN Faulted(s)
    ELSE LET s1 == x87_write_cw(s, buf[1])
         IN  IF reads = 2 THEN Faulted(s1)
             ELSE LET s2 == [s1 EXCEPT !.sw = buf[SwWord(wide) + 1]]
                  IN  IF reads = 3 THEN Faulted(s2)
                      ELSE [s2 EXCEPT !.tw = buf[TwWord(wide) + 1]]

\* images offered to FRSTOR and FLDENV: an empty FPU; ZM unmasked with
\* ST(0) = 1 and ST(1) = 0; IM unmasked, round up, IE latched, ST(0) = +inf
Img1 == [cw |-> 895, sw |-> 0, tw |-> 65535, reg |-> [r \in 0..7 |-> fx80_zero]]
Img2 ==
    [cw |-> 891, sw |-> 12288, tw |-> 20479,
     reg |-> [r \in 0..7 |-> IF r = 6 THEN fx80_one ELSE fx80_zero]]
Img3 ==
    [cw |-> 2942, sw |-> 14337, tw |-> 49151,
     reg |-> [r \in 0..7 |-> IF r = 7 THEN fx80_pinf ELSE fx80_zero]]
\* PM unmasked, round to zero, BUSY set, ST(0) = a quiet NaN whose tag in the
\* image is VALID
Img4 ==
    [cw |-> 3935, sw |-> 47104, tw |-> 16383,
     reg |-> [r \in 0..7 |-> IF r = 7 THEN fx80_qnan ELSE fx80_zero]]
ImgSet == {Img1, Img2, Img3, Img4}

\* which memory read of FRSTOR or FLDENV faults (0: none; 4: the last
\* register read of FRSTOR)
ReadFaultSet == 0..4

StateBufs(s, wide) ==
    {Header(img, wide) \o RegWords(img) : img \in ImgSet}
        \cup (IF s.mem.fmt = "state" THEN {s.mem.val} ELSE {})

EnvBufs(s, wide) ==
    {Header(img, wide) : img \in ImgSet}
        \cup (IF s.mem.fmt = "env" THEN {s.mem.val} ELSE {})

x87_fldenv ==
    /\ CanStep
    /\ \E reads \in 0..3 :
           LET wide == Cur.opsize # 0
           IN  \E buf \in EnvBufs(Cur, wide) :
                   Do("x87_fldenv", 0,
                      LET s1 == RestoreHeader(Cur, buf, wide, reads)
                      IN  IF s1.fault THEN s1 ELSE x87_check_exceptions(s1))

x87_frstor ==
    /\ CanStep
    /\ \E reads \in ReadFaultSet :
           LET wide == Layout(Cur) >= 2
           IN  \E buf \in StateBufs(Cur, wide) :
                   Do("x87_frstor",
                      IF Cur.mem.fmt = "state" /\ buf = Cur.mem.val THEN 1 ELSE 0,
                      LET s1 == RestoreHeader(Cur, buf, wide, reads)
                      IN  IF s1.fault THEN s1
                          ELSE IF reads = 4
                          THEN Faulted(RestoreRegs(s1, buf, RegWord(wide), 7))
                          ELSE RestoreRegs(s1, buf, RegWord(wide), 8))

(***************************************************************************)
(* The exported function table (x87ops.c:4400-4526): host entry points     *)
(* working on host memory.                                                 *)
(***************************************************************************)
fldcw ==
    /\ CanStep
    /\ \E cw \in CwSet : Do("fldcw", 0, Fldcw(Cur, cw))

wait ==
    /\ CanStep
    /\ Do("wait", 0, Cur)

fninit ==
    /\ CanStep
    /\ Do("fninit", 0, x87_reset(Cur))

fstcw ==
    /\ CanStep
    /\ Do("fstcw", 0, Write(Cur, "m16", <<Cur.cw>>))

fstsw ==
    /\ CanStep
    /\ Do("fstsw", 0, Write(Cur, "m16", <<Cur.sw>>))

frndint ==
    /\ CanStep
    /\ Do("frndint", 0,
          WriteSt0(IF X87_IS_ST_EMPTY(Cur, 0) THEN Underflow(Cur)
                   ELSE LET r == floatx80_round_to_int(ST(Cur, 0), Cur.rm)
                        IN  [s |-> Lib(SwClear(Cur, X87_SW_C1), r), result |-> r.v]))

fclex ==
    /\ CanStep
    /\ Do("fclex", 0, Fclex(Cur))

\* cw, sw, tw at bytes 0, 2, 4; the registers from byte 6
AbiImage(s) == <<s.cw, s.sw, s.tw>> \o RegWords(s)

fsave ==
    /\ CanStep
    /\ Do("fsave", 0, WriteImage(Cur, "abi_state", AbiImage(Cur)))

AbiBufs(s) ==
    {<<img.cw, img.sw, img.tw>> \o RegWords(img) : img \in ImgSet}
        \cup (IF s.mem.fmt = "abi_state" THEN {s.mem.val} ELSE {})

\* cw, sw, tw from bytes 0, 2, 4; the registers from byte 0
frstor ==
    /\ CanStep
    /\ \E buf \in AbiBufs(Cur) :
           Do("frstor",
              IF Cur.mem.fmt = "abi_state" /\ buf = Cur.mem.val THEN 1 ELSE 0,
              RestoreRegs([x87_write_cw(Cur, buf[1]) EXCEPT !.sw = buf[2], !.tw = buf[3]],
                          buf, 0, 8))

Fistp(s, round) ==
    IF X87_IS_ST_EMPTY(s, 0) THEN Write(s, "ret32", <<0, 32768>>)
    ELSE LET oldround == s.rm
             rm == x87_to_sf_rc[round % 4]
             fx80 == floatx80_round_to_int(ST(s, 0), rm)
             lt == floatx80_lt(fx80.v, fx80_int32_min)
             le == floatx80_le(fx80.v, fx80_int32_max)
             q == floatx80_to_int(fx80.v, rm)
             s1 == Raise(Lib(s, fx80), lt.f)
             s2 == IF lt.b THEN Write(s1, "ret32", <<0, 32768>>)
                   ELSE IF ~le.b THEN Write(Raise(s1, le.f), "ret32", <<0, 32768>>)
                   ELSE Write(Lib(s1, q), "ret32", Words32(q.q))
         IN  [x87_inc_stack(s2) EXCEPT !.rm = oldround]

fistp ==
    /\ CanStep
    /\ \E round \in 0..3 : Do("fistp", round, Fistp(Cur, round))

(***************************************************************************)
(* Initial states.  The globals start zeroed and x87_reset runs at         *)
(* start-up; the other initial states are those reached from there by the  *)
(* handler sequences named beside them.                                    *)
(***************************************************************************)
Zeroed(cr0) ==
    [reg |-> [r \in 0..7 |-> fx80_zero], sw |-> 0, cw |-> 0, tw |-> 0,
     rm |-> "float_round_nearest_even", fl |-> {},
     CF |-> 0, ZF |-> 0, PF |-> 0, cr0 |-> cr0, opsize |-> 0, mem |-> NoMem,
     ret |-> 1, chk |-> "none", trap |-> FALSE, fault |-> FALSE, ok |-> TRUE,
     opd |-> fx80_zero]

Fldz(s) == LoadConst(s, fx80_zero, X87_TW_ZERO)
Fld1(s) == LoadConst(s, fx80_one, X87_TW_VALID)

\* start-up
StartReset(cr0) == x87_reset(Zeroed(cr0))
\* FLDZ; FLD1
StartZeroOne(cr0) == Fld1(Fldz(StartReset(cr0)))
\* FLDCW 037Bh; FLDZ; FLD1
StartZmZeroOne(cr0) == Fld1(Fldz(Fldcw(StartReset(cr0), 891)))
\* FLD m80real (+inf); FLD m32real (-inf)
StartInfs(cr0) ==
    LoadReal(LoadM80(StartReset(cr0), fx80_pinf, FALSE),
             float32_to_floatx80(F32(1, 255, 0)), FALSE)

\* FLDCW 035Fh; FLD m80real (+inf); FLD m32real (-inf);
\* FLD m80real (1 + 2^-63); FSTP m32real: the conversion of the store is
\* inexact and follows its x87_check_exceptions
StartPendingInexact(cr0) ==
    StoreM32(
        LoadM80(
            LoadReal(LoadM80(Fldcw(StartReset(cr0), 863), fx80_pinf, FALSE),
                     float32_to_floatx80(F32(1, 255, 0)), FALSE),
            FX(16383, 32768, 0, 0, 1), FALSE),
        TRUE)

\* the start-up state in a given mode: CR0 and the operand size
StartMode(cr0, opsize) == x87_reset([Zeroed(cr0) EXCEPT !.opsize = opsize])

\* 16-bit protected mode.  FLD1; FSAVE; FLDCW 037Eh; FST ST(7): IM is
\* unmasked and ST(7) is occupied
StartFullUnmasked ==
    StoreSti(Fldcw(Fsave(Fld1(StartMode(CR0_PE, 0))), 894), 7, FALSE)

\* 32-bit real mode.  FLD1; FSAVE; FST ST(7): ST(7) is occupied
StartFull == StoreSti(Fsave(Fld1(StartMode(0, 1))), 7, FALSE)

\* 32-bit protected mode.  FLDCW 035Fh; FLD m80real (1 + 2^-63);
\* FST ST(7); FST m32real; FSAVE: ST(7) is occupied and the inexact flag
\* of the store's conversion is pending with PM unmasked
StartFullPendingInexact ==
    Fsave(StoreM32(StoreSti(LoadM80(Fldcw(StartMode(CR0_PE, 1), 863),
                                    FX(16383, 32768, 0, 0, 1), FALSE),
                            7, FALSE),
                   FALSE))

\* no digit loop is running
NoBcd ==
    [stage |-> "none", sign |-> 0, u64 |-> <<0, 0, 0>>, result |-> fx80_zero,
     m64val |-> <<0, 0, 0>>]

StartSet ==
    {StartReset(0), StartReset(CR0_NE), StartZeroOne(0), StartZmZeroOne(0),
     StartZmZeroOne(CR0_NE), StartInfs(0), StartPendingInexact(0),
     StartFullUnmasked, StartFull, StartFullPendingInexact}

Init ==
    \E s \in StartSet :
        /\ m_x87_reg = s.reg
        /\ m_x87_sw = s.sw
        /\ m_x87_cw = s.cw
        /\ m_x87_tw = s.tw
        /\ float_rounding_mode = s.rm
        /\ float_exception_flags = s.fl
        /\ m_CF = s.CF /\ m_ZF = s.ZF /\ m_PF = s.PF
        /\ m_cr0 = s.cr0
        /\ m_operand_size = s.opsize
        /\ mem = s.mem
        /\ last = NoCall
        /\ nsteps = 0
        /\ bcd = NoBcd
        /\ m_opcode_table_x87 = NoTable
        /\ build_modrm = 0

\* every handler and exported function except FLDENV and FRSTOR
NextNoRestore ==
    \/ x87_fadd_m32real
    \/ x87_fadd_m64real
    \/ x87_fadd_st_sti
    \/ x87_fadd_sti_st
    \/ x87_faddp
    \/ x87_fiadd_m32int
    \/ x87_fiadd_m16int
    \/ x87_fsub_m32real
    \/ x87_fsub_m64real
    \/ x87_fsub_st_sti
    \/ x87_fsub_sti_st
    \/ x87_fsubp
    \/ x87_fisub_m32int
    \/ x87_fisub_m16int
    \/ x87_fsubr_m32real
    \/ x87_fsubr_m64real
    \/ x87_fsubr_st_sti
    \/ x87_fsubr_sti_st
    \/ x87_fsubrp
    \/ x87_fisubr_m32int
    \/ x87_fisubr_m16int
    \/ x87_fdiv_m32real
    \/ x87_fdiv_m64real
    \/ x87_fdiv_st_sti
    \/ x87_fdiv_sti_st
    \/ x87_fdivp
    \/ x87_fidiv_m32int
    \/ x87_fidiv_m16int
    \/ x87_fdivr_m32real
    \/ x87_fdivr_m64real
    \/ x87_fdivr_st_sti
    \/ x87_fdivr_sti_st
    \/ x87_fdivrp
    \/ x87_fidivr_m32int
    \/ x87_fidivr_m16int
    \/ x87_fmul_m32real
    \/ x87_fmul_m64real
    \/ x87_fmul_st_sti
    \/ x87_fmul_sti_st
    \/ x87_fmulp
    \/ x87_fimul_m32int
    \/ x87_fimul_m16int
    \/ x87_fcmovb_sti
    \/ x87_fcmove_sti
    \/ x87_fcmovbe_sti
    \/ x87_fcmovu_sti
    \/ x87_fcmovnb_sti
    \/ x87_fcmovne_sti
    \/ x87_fcmovnbe_sti
    \/ x87_fcmovnu_sti
    \/ x87_fprem
    \/ x87_fprem1
    \/ x87_fsqrt
    \/ x87_f2xm1
    \/ x87_fyl2x
    \/ x87_fyl2xp1
    \/ x87_fptan
    \/ x87_fpatan
    \/ x87_fsin
    \/ x87_fcos
    \/ x87_fsincos
    \/ x87_fld_m32real
    \/ x87_fld_m64real
    \/ x87_fld_m80real
    \/ x87_fld_sti
    \/ x87_fild_m16int
    \/ x87_fild_m32int
    \/ x87_fild_m64int
    \/ x87_fbld
    \/ x87_fst_m32real
    \/ x87_fst_m64real
    \/ x87_fst_sti
    \/ x87_fstp_m32real
    \/ x87_fstp_m64real
    \/ x87_fstp_m80real
    \/ x87_fstp_sti
    \/ x87_fist_m16int
    \/ x87_fist_m32int
    \/ x87_fistp_m16int
    \/ x87_fistp_m32int
    \/ x87_fistp_m64int
    \/ x87_fbstp
    \/ x87_fld1
    \/ x87_fldl2t
    \/ x87_fldl2e
    \/ x87_fldpi
    \/ x87_fldlg2
    \/ x87_fldln2
    \/ x87_fldz
    \/ x87_fnop
    \/ x87_fchs
    \/ x87_fabs
    \/ x87_fscale
    \/ x87_frndint
    \/ x87_fxtract
    \/ x87_ftst
    \/ x87_fxam
    \/ x87_ficom_m16int
    \/ x87_ficom_m32int
    \/ x87_ficomp_m16int
    \/ x87_ficomp_m32int
    \/ x87_fcom_m32real
    \/ x87_fcom_m64real
    \/ x87_fcom_sti
    \/ x87_fcomp_m32real
    \/ x87_fcomp_m64real
    \/ x87_fcomp_sti
    \/ x87_fcomi_sti
    \/ x87_fcomip_sti
    \/ x87_fucomi_sti
    \/ x87_fucomip_sti
    \/ x87_fcompp
    \/ x87_fucom_sti
    \/ x87_fucomp_sti
    \/ x87_fucompp
    \/ x87_fdecstp
    \/ x87_fincstp
    \/ x87_fclex
    \/ x87_ffree
    \/ x87_finit
    \/ x87_fldcw
    \/ x87_fstcw
    \/ x87_fstsw_ax
    \/ x87_fstsw_m2byte
    \/ x87_fxch
    \/ x87_fxch_sti
    \/ x87_fstenv
    \/ x87_fsave
    \/ fldcw
    \/ wait
    \/ fninit
    \/ fstcw
    \/ fstsw
    \/ frndint
    \/ fclex
    \/ fsave
    \/ fistp

Next ==
    \/ NextNoRestore
    \/ x87_fldenv
    \/ x87_frstor
    \/ frstor

Spec == Init /\ [][Next]_vars

SpecNoRestore == Init /\ [][NextNoRestore]_vars

(***************************************************************************)
(* The digit loops of FBSTP and FBLD on their own: a magnitude u64 below   *)
(* 10^18 and a sign are packed by the loop of x87_fbstp, and the packed    *)
(* result is read back by the loop of x87_fbld.  The FPU stays in its      *)
(* start-up state.                                                         *)
(***************************************************************************)
\* base-10^6 limbs offered for the magnitude
BcdLimbSet == {0, 1, 9, 10, 123456, 999999}

InitBcd ==
    /\ m_x87_reg = StartReset(0).reg
    /\ m_x87_sw = StartReset(0).sw
    /\ m_x87_cw = StartReset(0).cw
    /\ m_x87_tw = StartReset(0).tw
    /\ float_rounding_mode = StartReset(0).rm
    /\ float_exception_flags = {}
    /\ m_CF = 0 /\ m_ZF = 0 /\ m_PF = 0
    /\ m_cr0 = 0
    /\ m_operand_size = 0
    /\ mem = NoMem
    /\ last = NoCall
    /\ nsteps = 0
    /\ m_opcode_table_x87 = NoTable
    /\ build_modrm = 0
    /\ \E sign \in 0..1, u0 \in BcdLimbSet, u1 \in BcdLimbSet, u2 \in BcdLimbSet :
           bcd = [NoBcd EXCEPT !.stage = "value", !.sign = sign * 32768,
                               !.u64 = <<u0, u1, u2>>]

\* the digit loop of x87_fbstp and the assembly of result.high
fbstp_digits ==
    /\ bcd.stage = "value"
    /\ bcd' = [bcd EXCEPT !.stage = "packed",
                          !.result = BcdPack(bcd.u64, bcd.sign)]
    /\ UNCHANGED <<m_x87_reg, m_x87_sw, m_x87_cw, m_x87_tw, float_rounding_mode,
                   float_exception_flags, m_CF, m_ZF, m_PF, m_cr0,
                   m_operand_size, mem, last, nsteps, m_opcode_table_x87,
                   build_modrm>>

\* the digit accumulation of x87_fbld on the packed result
fbld_digits ==
    /\ bcd.stage = "packed"
    /\ bcd' = [bcd EXCEPT !.stage = "unpacked",
                          !.m64val = BcdUnpack(bcd.result)]
    /\ UNCHANGED <<m_x87_reg, m_x87_sw, m_x87_cw, m_x87_tw, float_rounding_mode,
                   float_exception_flags, m_CF, m_ZF, m_PF, m_cr0,
                   m_operand_size, mem, last, nsteps, m_opcode_table_x87,
                   build_modrm>>

NextBcd ==
    \/ fbstp_digits
    \/ fbld_digits

SpecBcd == InitBcd /\ [][NextBcd]_vars

(***************************************************************************)
(* Properties.  They are stated over the observed call: last.pre is the    *)
(* FPU state the handler started from, the variables are the state it      *)
(* returned with.                                                          *)
(***************************************************************************)
\* the six exception bits of SW
Latched(sw) == BitAnd(sw, 63)
\* (SW AND NOT CW) has one of the six exception bits
Unmasked(s) == BitAnd(BitAnd(s.sw, BitNot16(s.cw)), 63) # 0
Top(s) == ST_TO_PHYS(s, 0)
FiniteNonZero(a) == ExpOf(a) # 32767 /\ ~floatx80_is_zero(a)
OppositeInfs(a, b) ==
    floatx80_is_inf(a) /\ floatx80_is_inf(b) /\ SignOf(a) # SignOf(b)

AbiOps ==
    {"fldcw", "wait", "fninit", "fstcw", "fstsw", "frndint", "fclex", "fsave",
     "frstor", "fistp"}

\* C1: after x87_reset, reached through the FINIT handler or the ABI fninit
\* from any prior state, CW = 0x037F, SW = 0, TW = 0xFFFF and the SoftFloat
\* rounding mode is round-to-nearest-even.
C1_ResetState ==
    last.op \in {"x87_finit", "fninit"} =>
        /\ m_x87_cw = 895
        /\ m_x87_sw = 0
        /\ m_x87_tw = 65535
        /\ float_rounding_mode = "float_round_nearest_even"

\* FINIT ran on a state that differed from the reset state in every field
C1_Witness ==
    /\ last.op = "x87_finit"
    /\ last.pre.cw # 895
    /\ last.pre.sw # 0
    /\ last.pre.tw # 65535
    /\ last.pre.rm # "float_round_nearest_even"

\* C2: starting from reset, after handlers other than FLDENV and FRSTOR,
\* every physical slot whose tag is not EMPTY has the tag of its stored
\* value: ZERO iff the value is +0 or -0, SPECIAL for an infinity or a NaN,
\* VALID otherwise.
C2_TagsAgree ==
    \A p \in 0..7 :
        X87_TAG(Cur, p) # X87_TW_EMPTY => X87_TAG(Cur, p) = TagOf(m_x87_reg[p])

\* C3: a handler whose operand slot is EMPTY latches stack underflow (SF and
\* IE set, C1 cleared) instead of using the stored value; stated for the
\* two-operand stack forms (operands ST(0) and ST(1) or ST(i)) and for the
\* source of FLD ST(i) when the push itself is possible.
TwoOperandOps ==
    {"x87_fpatan", "x87_fprem", "x87_fprem1", "x87_fyl2x", "x87_fyl2xp1",
     "x87_fscale"}

RegArithOps ==
    {"x87_fadd_st_sti", "x87_fadd_sti_st", "x87_faddp",
     "x87_fsub_st_sti", "x87_fsub_sti_st", "x87_fsubp",
     "x87_fsubr_st_sti", "x87_fsubr_sti_st", "x87_fsubrp",
     "x87_fdiv_st_sti", "x87_fdiv_sti_st", "x87_fdivp",
     "x87_fdivr_st_sti", "x87_fdivr_sti_st", "x87_fdivrp",
     "x87_fmul_st_sti", "x87_fmul_sti_st", "x87_fmulp"}

EmptyOperand ==
    \/ /\ last.op \in TwoOperandOps
       /\ X87_IS_ST_EMPTY(last.pre, 0) \/ X87_IS_ST_EMPTY(last.pre, 1)
    \/ /\ last.op \in RegArithOps
       /\ X87_IS_ST_EMPTY(last.pre, 0) \/ X87_IS_ST_EMPTY(last.pre, last.arg)
    \/ /\ last.op = "x87_fld_sti"
       /\ X87_IS_ST_EMPTY(last.pre, 7)
       /\ X87_IS_ST_EMPTY(last.pre, last.arg)

C3_EmptyOperandUnderflows ==
    EmptyOperand =>
        /\ SwHas(Cur, X87_SW_IE)
        /\ SwHas(Cur, X87_SW_SF)
        /\ ~SwHas(Cur, X87_SW_C1)

\* C4: an exception bit (IE, DE, ZE, OE, UE, PE) set in SW stays set across
\* every handler other than FCLEX, FINIT, FLDENV, FRSTOR and the ABI fclex,
\* fninit, frstor.
ClearingOps ==
    {"x87_fclex", "x87_finit", "x87_fldenv", "x87_frstor", "fclex", "fninit",
     "frstor"}

C4_LatchedStay ==
    (last.op # "none" /\ last.op \notin ClearingOps) =>
        BitAnd(Latched(last.pre.sw), m_x87_sw) = Latched(last.pre.sw)

\* a handler outside the clearing ones changed SW while a bit was latched
C4_Witness ==
    /\ last.op # "none"
    /\ last.op \notin ClearingOps
    /\ Latched(last.pre.sw) # 0
    /\ m_x87_sw # last.pre.sw

\* C5: whenever a handler or ABI call has returned, the SoftFloat rounding
\* mode is x87_to_sf_rc[CW.RC], also after the ABI fistp ran with a rounding
\* override different from CW.RC.
C5_RoundingFollowsCW == float_rounding_mode = x87_to_sf_rc[X87_RC(Cur)]

\* the ABI fistp converted ST(0) under an override other than CW.RC
C5_Witness ==
    /\ last.op = "fistp"
    /\ ~X87_IS_ST_EMPTY(last.pre, 0)
    /\ last.arg # X87_RC(last.pre)

\* C6: when x87_check_exceptions fails in an instruction handler, the eight
\* register values, the tag word and TOP are what they were before the
\* handler started.  FLDENV and FRSTOR, which replace TW and TOP from memory
\* before their check, are left out.
C6_FailedCheckCommitsNothing ==
    (last.chk = "fail" /\ last.op \notin AbiOps \cup {"x87_fldenv", "x87_frstor"}) =>
        /\ m_x87_reg = last.pre.reg
        /\ m_x87_tw = last.pre.tw
        /\ Top(Cur) = Top(last.pre)

\* C7: a memory read that faults leaves SW, TW, CW and the registers as
\* they were before the instruction.
C7_FaultLeavesState ==
    last.fault =>
        /\ m_x87_sw = last.pre.sw
        /\ m_x87_tw = last.pre.tw
        /\ m_x87_cw = last.pre.cw
        /\ m_x87_reg = last.pre.reg

\* The dividend and divisor of a DIV/DIVR handler, when both are present.
DivSt0BySti == {"x87_fdiv_st_sti", "x87_fdivr_sti_st", "x87_fdivrp"}
DivStiBySt0 == {"x87_fdiv_sti_st", "x87_fdivp", "x87_fdivr_st_sti"}
DivSt0ByMem ==
    {"x87_fdiv_m32real", "x87_fdiv_m64real", "x87_fidiv_m32int",
     "x87_fidiv_m16int"}
DivMemBySt0 ==
    {"x87_fdivr_m32real", "x87_fdivr_m64real", "x87_fidivr_m32int",
     "x87_fidivr_m16int"}

DivOperands ==
    IF last.op \in DivSt0BySti
    THEN [ok |-> ~X87_IS_ST_EMPTY(last.pre, 0) /\ ~X87_IS_ST_EMPTY(last.pre, last.arg),
          a |-> ST(last.pre, 0), b |-> ST(last.pre, last.arg)]
    ELSE IF last.op \in DivStiBySt0
    THEN [ok |-> ~X87_IS_ST_EMPTY(last.pre, 0) /\ ~X87_IS_ST_EMPTY(last.pre, last.arg),
          a |-> ST(last.pre, last.arg), b |-> ST(last.pre, 0)]
    ELSE IF last.op \in DivSt0ByMem
    THEN [ok |-> ~X87_IS_ST_EMPTY(last.pre, 0) /\ ~last.fault,
          a |-> ST(last.pre, 0), b |-> last.opd]
    ELSE IF last.op \in DivMemBySt0
    THEN [ok |-> ~X87_IS_ST_EMPTY(last.pre, 0) /\ ~last.fault,
          a |-> last.opd, b |-> ST(last.pre, 0)]
    ELSE [ok |-> FALSE, a |-> fx80_zero, b |-> fx80_zero]

FiniteByZero ==
    /\ DivOperands.ok
    /\ FiniteNonZero(DivOperands.a)
    /\ floatx80_is_zero(DivOperands.b)

\* C8: every DIV/DIVR handler dividing a finite non-zero value by zero
\* leaves ZE latched in SW; FDIV ST(0),ST(1) of 1 by +0 under CW 0x037F with
\* nothing latched also leaves ST(0) = +infinity tagged SPECIAL and raises
\* no math-fault trap.
C8_ZeroDivideLatchesZE ==
    FiniteByZero =>
        /\ SwHas(Cur, X87_SW_ZE)
        /\ (/\ last.op = "x87_fdiv_st_sti"
            /\ last.pre.cw = 895
            /\ Latched(last.pre.sw) = 0
            /\ SignOf(DivOperands.a) = SignOf(DivOperands.b))
           => /\ ST(Cur, 0) = fx80_pinf
              /\ X87_TAG(Cur, Top(Cur)) = X87_TW_SPECIAL
              /\ ~last.trap

\* C9: with ZM clear in CW and no exception latched beforehand, an FDIV of
\* a finite non-zero ST(0) by zero makes x87_check_exceptions fail (raising
\* #MF when CR0.NE is set) and leaves the value and tag of ST(0) unchanged.
C9_UnmaskedZeroDivideFails ==
    (/\ FiniteByZero
     /\ last.op \in {"x87_fdiv_st_sti", "x87_fdiv_m32real", "x87_fdiv_m64real"}
     /\ ~CwHas(last.pre, X87_CW_ZM)
     /\ Latched(last.pre.sw) = 0)
    => /\ last.chk = "fail"
       /\ (BitAnd(m_cr0, CR0_NE) # 0 => last.trap)
       /\ ST(Cur, 0) = ST(last.pre, 0)
       /\ X87_TAG(Cur, Top(Cur)) = X87_TAG(last.pre, Top(last.pre))

\* The operands and the destination slot of an ADD-family handler.
AddRegOps == {"x87_fadd_st_sti", "x87_fadd_sti_st", "x87_faddp"}
AddMemOps ==
    {"x87_fadd_m32real", "x87_fadd_m64real", "x87_fiadd_m32int",
     "x87_fiadd_m16int"}

AddOfOppositeInfs ==
    \/ /\ last.op \in AddRegOps
       /\ ~X87_IS_ST_EMPTY(last.pre, 0)
       /\ ~X87_IS_ST_EMPTY(last.pre, last.arg)
       /\ OppositeInfs(ST(last.pre, 0), ST(last.pre, last.arg))
    \/ /\ last.op \in AddMemOps
       /\ ~last.fault
       /\ ~X87_IS_ST_EMPTY(last.pre, 0)
       /\ OppositeInfs(ST(last.pre, 0), last.opd)

AddDestination ==
    IF last.op \in {"x87_fadd_sti_st", "x87_faddp"}
    THEN ST_TO_PHYS(last.pre, last.arg)
    ELSE ST_TO_PHYS(last.pre, 0)

IndefiniteStored ==
    /\ SwHas(Cur, X87_SW_IE)
    /\ m_x87_reg[AddDestination] = fx80_inan
    /\ X87_TAG(Cur, AddDestination) = X87_TW_SPECIAL

\* the SoftFloat flags x87_check_exceptions drains, with their SW/CW bit
PendingUnmasked(s) ==
    \/ "float_flag_invalid" \in s.fl /\ ~CwHas(s, X87_CW_IM)
    \/ "float_flag_overflow" \in s.fl /\ ~CwHas(s, X87_CW_OM)
    \/ "float_flag_underflow" \in s.fl /\ ~CwHas(s, X87_CW_UM)
    \/ "float_flag_inexact" \in s.fl /\ ~CwHas(s, X87_CW_PM)

LoadOps ==
    {"x87_fld_m32real", "x87_fld_m64real", "x87_fld_m80real", "x87_fld_sti",
     "x87_fild_m16int", "x87_fild_m32int", "x87_fild_m64int", "x87_fbld",
     "x87_fld1", "x87_fldl2t", "x87_fldl2e", "x87_fldpi", "x87_fldlg2",
     "x87_fldln2", "x87_fldz"}

\* a load handler ran with ST(7) occupied
PushBlocked == last.op \in LoadOps /\ ~X87_IS_ST_EMPTY(last.pre, 7)

StackFaultLatched ==
    SwHas(Cur, X87_SW_SF) /\ SwHas(Cur, X87_SW_IE) /\ SwHas(Cur, X87_SW_C1)

\* C11: for every load handler, when ST(7) is not EMPTY and IM is clear in
\* CW, SF, IE and C1 are latched in SW, and TOP, the tag word and the eight
\* register values are what they were before the handler.
C11_BlockedPushAborts ==
    (PushBlocked /\ ~CwHas(last.pre, X87_CW_IM))
    => /\ StackFaultLatched
       /\ Top(Cur) = Top(last.pre)
       /\ m_x87_tw = last.pre.tw
       /\ m_x87_reg = last.pre.reg

\* FLD m80real found ST(7) occupied with IM unmasked and IE not yet latched,
\* and its exception check failed
C11_Witness ==
    /\ last.op = "x87_fld_m80real"
    /\ PushBlocked
    /\ ~CwHas(last.pre, X87_CW_IM)
    /\ ~SwHas(last.pre, X87_SW_IE)
    /\ last.chk = "fail"
    /\ StackFaultLatched

\* TOP moved down by one, the new ST(0) holds the indefinite NaN tagged
\* SPECIAL, every other slot keeps its value and tag
PushSubstituted ==
    /\ StackFaultLatched
    /\ Top(Cur) = (Top(last.pre) + 7) % 8
    /\ m_x87_reg[Top(Cur)] = fx80_inan
    /\ X87_TAG(Cur, Top(Cur)) = X87_TW_SPECIAL
    /\ \A p \in 0..7 :
           p # Top(Cur) => /\ m_x87_reg[p] = last.pre.reg[p]
                           /\ X87_TAG(Cur, p) = X87_TAG(last.pre, p)

TwoLoaded(s) ==
    /\ s.cw = 895
    /\ Top(s) = 6
    /\ X87_TAG(s, 6) # X87_TW_EMPTY
    /\ X87_TAG(s, 7) # X87_TW_EMPTY
    /\ \A p \in 0..5 : X87_TAG(s, p) = X87_TW_EMPTY

\* a + b is a valid operation
SumValid(a, b) ==
    /\ ~floatx80_is_signaling_nan(a)
    /\ ~floatx80_is_signaling_nan(b)
    /\ ~OppositeInfs(a, b)

FaddpAfterTwoLoads ==
    /\ last.op = "x87_faddp"
    /\ last.arg = 1
    /\ TwoLoaded(last.pre)
    /\ SumValid(ST(last.pre, 0), ST(last.pre, 1))

\* C13: after FINIT, a load of a, a load of b and FADDP ST(1),ST, with all
\* exceptions masked and a + b valid, TOP = 7, slot 7 is the only occupied
\* slot and ST(0) holds a + b; when the values loaded are 1.0 and +0,
\* ST(0) = 1.0 tagged VALID.
C13_LoadLoadFaddp ==
    FaddpAfterTwoLoads
    => /\ Top(Cur) = 7
       /\ X87_TAG(Cur, 7) # X87_TW_EMPTY
       /\ \A p \in 0..6 : X87_TAG(Cur, p) = X87_TW_EMPTY
       /\ ST(Cur, 0) = x87_add(last.pre, ST(last.pre, 0), ST(last.pre, 1)).v
       /\ (ST(last.pre, 0) = fx80_zero /\ ST(last.pre, 1) = fx80_one)
              => (ST(Cur, 0) = fx80_one /\ X87_TAG(Cur, 7) = X87_TW_VALID)

\* FADDP ST(1),ST ran with ST(1) = 1.0 and ST(0) = +0 and left 1.0 in the
\* one occupied slot
C13_Witness ==
    /\ FaddpAfterTwoLoads
    /\ ST(last.pre, 0) = fx80_zero
    /\ ST(last.pre, 1) = fx80_one
    /\ Top(Cur) = 7
    /\ m_x87_reg[7] = fx80_one
    /\ m_x87_tw = 16383

PopStoreOps ==
    {"x87_fstp_m32real", "x87_fstp_m64real", "x87_fstp_m80real", "x87_fstp_sti",
     "x87_fistp_m16int", "x87_fistp_m32int", "x87_fistp_m64int", "x87_fbstp"}

MemStoreOps ==
    {"x87_fst_m32real", "x87_fst_m64real", "x87_fist_m16int", "x87_fist_m32int"}

\* the handler found ST(0) occupied and its x87_check_exceptions succeeded
StoreCommitted == ~X87_IS_ST_EMPTY(last.pre, 0) /\ last.chk = "ok"

PopCommitted ==
    (last.op \in PopStoreOps /\ StoreCommitted)
    => /\ X87_TAG(Cur, Top(last.pre)) = X87_TW_EMPTY
       /\ Top(Cur) = (Top(last.pre) + 1) % 8

\* the state FINIT; FLDPI leaves
AfterFldpi(s) ==
    /\ s.cw = 895
    /\ Latched(s.sw) = 0
    /\ Top(s) = 7
    /\ s.tw = 16383
    /\ s.reg[7] = FX(16384, 51471, 55970, 8552, 49717)

FldpiStored ==
    (last.op = "x87_fstp_m64real" /\ AfterFldpi(last.pre))
    => (m_x87_tw = 65535 /\ Top(Cur) = 0)

\* C14 as stated: a popping store (FSTP m32/m64/m80, FSTP ST(i), FISTP,
\* FBSTP) that finds ST(0) non-EMPTY and passes x87_check_exceptions tags
\* the former ST(0) EMPTY and advances TOP by one modulo 8; the non-popping
\* FST and FIST forms, FST ST(i) among them, leave TOP and TW unchanged;
\* after FINIT; FLDPI; FSTP m64real TW = 0xFFFF and TOP = 0.
C14_PopCommits ==
    /\ PopCommitted
    /\ (last.op \in MemStoreOps \cup {"x87_fst_sti"} /\ StoreCommitted)
           => (Top(Cur) = Top(last.pre) /\ m_x87_tw = last.pre.tw)
    /\ FldpiStored

\* C14 amended: the same for the popping stores and for FST m32/m64 and
\* FIST; FST ST(i) leaves TOP unchanged and changes no tag but that of
\* ST(i), which becomes the tag of the value stored.
C14_Amended ==
    /\ PopCommitted
    /\ (last.op \in MemStoreOps /\ StoreCommitted)
           => (Top(Cur) = Top(last.pre) /\ m_x87_tw = last.pre.tw)
    /\ (last.op = "x87_fst_sti" /\ StoreCommitted)
           => /\ Top(Cur) = Top(last.pre)
              /\ X87_TAG(Cur, ST_TO_PHYS(Cur, last.arg)) = TagOf(ST(last.pre, 0))
              /\ \A p \in 0..7 :
                     p # ST_TO_PHYS(Cur, last.arg)
                         => X87_TAG(Cur, p) = X87_TAG(last.pre, p)
    /\ FldpiStored

\* FSTP m64real stored pi after FINIT; FLDPI: memory holds
\* 400921FB54442D18h and the stack is empty
C14_Witness ==
    /\ last.op = "x87_fstp_m64real"
    /\ AfterFldpi(last.pre)
    /\ last.chk = "ok"
    /\ mem.fmt = "m64real"
    /\ mem.val = <<11544, 21572, 8699, 16393>>
    /\ m_x87_tw = 65535
    /\ Top(Cur) = 0

\* CW, SW, TW and ST(0)..ST(7) are those of the FPU state at
RestoredFrom(at) ==
    /\ m_x87_cw = at.cw
    /\ m_x87_sw = at.sw
    /\ m_x87_tw = at.tw
    /\ \A i \in 0..7 : ST(Cur, i) = ST(at, i)

\* FRSTOR read, without a fault, the image FSAVE left in memory
RestoredSavedImage ==
    last.op = "x87_frstor" /\ last.arg = 1 /\ ~last.fault

\* C15: in each of the four (protected-mode, operand-size) layouts, FSAVE
\* followed by other handlers that leave the image untouched and by FRSTOR
\* of that image restores CW, SW with TOP, TW and ST(0)..ST(7) to what they
\* were when FSAVE executed.
C15_SaveRestore == RestoredSavedImage => RestoredFrom(mem.at)

\* in 16-bit protected mode FRSTOR brought back the state saved before
\* FLDCW and FST ST(7) had changed CW and TW
C15_Witness ==
    /\ RestoredSavedImage
    /\ Layout(Cur) = 1
    /\ last.pre.cw # m_x87_cw
    /\ last.pre.tw # m_x87_tw
    /\ m_x87_reg[7] = fx80_one
    /\ RestoredFrom(mem.at)

\* C16: the ABI fsave(buf) followed by frstor(buf) on the same untouched
\* buffer restores CW, SW, TW and ST(0)..ST(7) to what they were at fsave.
C16_AbiSaveRestore ==
    (last.op = "frstor" /\ last.arg = 1) => RestoredFrom(mem.at)

\* the ABI fistp called with round = CW.RC, and the in-core FISTP m32int,
\* each run on the current state
AbiFistpHere == Fistp(Cur, X87_RC(Cur))
CoreFistpHere == FistCommit(Fist32(Cur), "m32int", TRUE)

\* C17: from every state, the ABI fistp(round) with round = CW.RC and the
\* in-core FISTP m32int handler leave the same SW, TW and TOP, and the
\* integer the ABI returns is the one the handler stores.
C17_AbiFistpMatches ==
    (AbiFistpHere.ok /\ CoreFistpHere.ok)
    => /\ AbiFistpHere.sw = CoreFistpHere.sw
       /\ AbiFistpHere.tw = CoreFistpHere.tw
       /\ Top(AbiFistpHere) = Top(CoreFistpHere)
       /\ CoreFistpHere.chk = "ok"
              => AbiFistpHere.mem.val = CoreFistpHere.mem.val

\* register values, tag word and TOP of s are those of the current state
SameStack(s) ==
    s.reg = m_x87_reg /\ s.tw = m_x87_tw /\ Top(s) = Top(Cur)

\* C18: from every state and for every i in 0..7, FXCH ST(i) executed twice
\* in a row restores the register values, the tag word and TOP, for the
\* default FXCH handler and for the FXCH ST(i) handler, also when ST(0) or
\* ST(i) is EMPTY.
C18_FxchTwice ==
    /\ SameStack(Fxch(Fxch(Cur)))
    /\ \A i \in 0..7 : SameStack(FxchSti(FxchSti(Cur, i), i))

\* decimal digit k (0..17) of the magnitude u
DecDigit(u, k) == (u[k \div 6 + 1] \div 10 ^ (k % 6)) % 10

\* the layout FBSTP writes: digit k in nibble k of low for k in 0..15,
\* digits 16 and 17 in high[3:0] and high[7:4], the sign in high[15]
BcdLayout(u, sign, result) ==
    /\ \A k \in 0..15 : Nibble(result.low, 4 * k) = DecDigit(u, k)
    /\ result.high % 16 = DecDigit(u, 16)
    /\ (result.high \div 16) % 16 = DecDigit(u, 17)
    /\ BitAnd(result.high, 32768) = sign

\* C19: for every magnitude 0 <= n < 10^18 and either sign, FBSTP's digit
\* loop packs n in the BCD layout, and FBLD's digit accumulation on the
\* packed result yields n again, with the same sign bit.
C19_BcdRoundTrip ==
    /\ bcd.stage \in {"packed", "unpacked"}
           => BcdLayout(bcd.u64, bcd.sign, bcd.result)
    /\ bcd.stage = "unpacked"
           => /\ bcd.m64val = bcd.u64
              /\ BitAnd(bcd.result.high, 32768) = bcd.sign

\* -999999999999999999 was packed and read back
C19_Witness ==
    /\ bcd.stage = "unpacked"
    /\ bcd.u64 = <<999999, 999999, 999999>>
    /\ bcd.sign = 32768
    /\ bcd.result = FX(32768 + 153, 39321, 39321, 39321, 39321)
    /\ bcd.m64val = bcd.u64

(***************************************************************************)
(* The classical compares (x87ops.c:3549-3578, 3614-3986, 4178-4338).      *)
(***************************************************************************)
CompareRegOps ==
    {"x87_fcom_sti", "x87_fcomp_sti", "x87_fucom_sti", "x87_fucomp_sti"}

ComparePopPopOps == {"x87_fcompp", "x87_fucompp"}

CompareMemOps ==
    {"x87_ficom_m16int", "x87_ficom_m32int", "x87_ficomp_m16int",
     "x87_ficomp_m32int", "x87_fcom_m32real", "x87_fcom_m64real",
     "x87_fcomp_m32real", "x87_fcomp_m64real"}

CompareOps ==
    CompareRegOps \cup ComparePopPopOps \cup CompareMemOps \cup {"x87_ftst"}

\* the stack index of the observed compare's second operand, for the
\* register forms
CompareIndex == IF last.op \in ComparePopPopOps THEN 1 ELSE last.arg

CompareIsReg == last.op \in CompareRegOps \cup ComparePopPopOps

\* the second operand of the observed compare
CompareOperand ==
    IF last.op = "x87_ftst" THEN fx80_zero
    ELSE IF CompareIsReg THEN ST(last.pre, CompareIndex)
    ELSE last.opd

CompareEmpty ==
    \/ X87_IS_ST_EMPTY(last.pre, 0)
    \/ CompareIsReg /\ X87_IS_ST_EMPTY(last.pre, CompareIndex)

\* numerical order of two encodings that are not NaNs: by sign, then by
\* exponent (a denormal's is that of the smallest normal), then by
\* significand, most significant word first
EffExp(a) == IF ExpOf(a) = 0 THEN 1 ELSE ExpOf(a)

MantLess(x, y) ==
    \E k \in 1..4 : x[k] < y[k] /\ \A j \in (k + 1)..4 : x[j] = y[j]

MagLess(a, b) ==
    EffExp(a) < EffExp(b) \/ (EffExp(a) = EffExp(b) /\ MantLess(a.low, b.low))

MagZero(a) == ExpOf(a) = 0 /\ a.low = <<0, 0, 0, 0>>

NumLess(a, b) ==
    IF SignOf(a) # SignOf(b)
    THEN SignOf(a) = 1 /\ ~(MagZero(a) /\ MagZero(b))
    ELSE IF SignOf(a) = 1 THEN MagLess(b, a) ELSE MagLess(a, b)

\* (C3, C2, C0) of a status word
Codes(sw) ==
    <<IF BitAnd(sw, X87_SW_C3) # 0 THEN 1 ELSE 0,
      IF BitAnd(sw, X87_SW_C2) # 0 THEN 1 ELSE 0,
      IF BitAnd(sw, X87_SW_C0) # 0 THEN 1 ELSE 0>>

ExpectedCodes(a, b) ==
    IF floatx80_is_nan(a) \/ floatx80_is_nan(b) THEN <<1, 1, 1>>
    ELSE IF NumLess(b, a) THEN <<0, 0, 0>>
    ELSE IF NumLess(a, b) THEN <<0, 0, 1>>
    ELSE <<1, 0, 0>>

\* C20: after a classical compare (FCOM/FCOMP/FCOMPP, FUCOM/FUCOMP/FUCOMPP,
\* FICOM/FICOMP, FTST) returns, with non-EMPTY operands (C3,C2,C0) is
\* (0,0,0) when ST(0) > operand, (0,0,1) when ST(0) < operand, (1,0,0) when
\* they are equal and (1,1,1) when either is a NaN, and C1 is clear,
\* whatever the condition codes were before; with an EMPTY operand
\* (C3,C2,C0) is (1,1,1) and the stack underflow is latched (IE and SF set,
\* C1 clear).
C20_CompareCodes ==
    (last.op \in CompareOps /\ ~last.fault) =>
        /\ BitAnd(m_x87_sw, X87_SW_C1) = 0
        /\ IF CompareEmpty
           THEN /\ Codes(m_x87_sw) = <<1, 1, 1>>
                /\ BitAnd(m_x87_sw, X87_SW_IE) # 0
                /\ BitAnd(m_x87_sw, X87_SW_SF) # 0
           ELSE Codes(m_x87_sw) = ExpectedCodes(ST(last.pre, 0), CompareOperand)

\* a compare of two occupied registers with ST(0) below ST(i), entered with
\* C1 and another condition code set, has left (0,0,1) and C1 clear
C20_Witness ==
    /\ last.op \in CompareRegOps \cup CompareMemOps
    /\ ~last.fault
    /\ ~CompareEmpty
    /\ BitAnd(last.pre.sw, X87_SW_C1) # 0
    /\ Codes(last.pre.sw) # <<0, 0, 1>>
    /\ NumLess(ST(last.pre, 0), CompareOperand)
    /\ Codes(m_x87_sw) = <<0, 0, 1>>
    /\ BitAnd(m_x87_sw, X87_SW_C1) = 0

(***************************************************************************)
(* The unordered compares and the invalid-operation bit                    *)
(* (x87ops.c:4077-4176, 4223-4338).                                        *)
(***************************************************************************)
UnorderedRegOps ==
    {"x87_fucom_sti", "x87_fucomp_sti", "x87_fucomi_sti", "x87_fucomip_sti"}

UnorderedOps == UnorderedRegOps \cup {"x87_fucompp"}

UnorderedIndex == IF last.op = "x87_fucompp" THEN 1 ELSE last.arg

\* the observed call is an unordered compare of two occupied registers that
\* started with IE clear and no invalid flag pending in SoftFloat
UnorderedCompared ==
    /\ last.op \in UnorderedOps
    /\ ~X87_IS_ST_EMPTY(last.pre, 0)
    /\ ~X87_IS_ST_EMPTY(last.pre, UnorderedIndex)
    /\ BitAnd(last.pre.sw, X87_SW_IE) = 0
    /\ "float_flag_invalid" \notin last.pre.fl

\* a NaN with the quiet bit (bit 62 of the significand) clear
IsSNaN(a) == floatx80_is_nan(a) /\ BitAnd(a.low[4], 16384) = 0

\* C21: after an unordered compare (FUCOM, FUCOMP, FUCOMPP, FUCOMI, FUCOMIP)
\* of non-EMPTY operands, IE is latched iff at least one operand is a
\* signaling NaN; quiet NaN operands, the indefinite NaN included, leave IE
\* as it was.
C21_UnorderedIE ==
    UnorderedCompared =>
        (BitAnd(m_x87_sw, X87_SW_IE) # 0
         <=> (IsSNaN(ST(last.pre, 0)) \/ IsSNaN(ST(last.pre, UnorderedIndex))))

(***************************************************************************)
(* Integer stores of values outside the target range                       *)
(* (x87ops.c:2969-3135).                                                   *)
(***************************************************************************)
Fist16Ops == {"x87_fist_m16int", "x87_fistp_m16int"}

Fist32Ops == {"x87_fist_m32int", "x87_fistp_m32int"}

FistOps == Fist16Ops \cup Fist32Ops \cup {"x87_fistp_m64int"}

\* the signed range of the observed store's target, and its indefinite
FistLower ==
    IF last.op \in Fist16Ops THEN int32_to_floatx80(-32768)
    ELSE IF last.op \in Fist32Ops THEN fx80_int32_min ELSE fx80_int64_min

FistUpper ==
    IF last.op \in Fist16Ops THEN fx80_int16_max
    ELSE IF last.op \in Fist32Ops THEN fx80_int32_max ELSE fx80_int64_max

FistIndefinite ==
    IF last.op \in Fist16Ops THEN <<32768>>
    ELSE IF last.op \in Fist32Ops THEN <<0, 32768>> ELSE <<0, 0, 0, 32768>>

\* ST(0) before the observed store, rounded to an integer under RC
FistRounded == floatx80_round_to_int(ST(last.pre, 0), last.pre.rm).v

\* the observed call is an integer store of a finite ST(0) whose rounded
\* value lies outside the target's signed range
FistOutOfRange ==
    /\ last.op \in FistOps
    /\ ~X87_IS_ST_EMPTY(last.pre, 0)
    /\ ExpOf(ST(last.pre, 0)) # 32767
    /\ NumLess(FistRounded, FistLower) \/ NumLess(FistUpper, FistRounded)

\* C22: FIST/FISTP m16int, m32int and FISTP m64int of a finite ST(0) whose
\* value rounded under RC is outside the signed range of the target latch
\* IE and, with IE masked, store the integer indefinite of that width.
C22_FistOutOfRange ==
    FistOutOfRange =>
        /\ BitAnd(m_x87_sw, X87_SW_IE) # 0
        /\ BitAnd(last.pre.cw, X87_CW_IM) # 0 => mem.val = FistIndefinite

(***************************************************************************)
(* Integer stores of a NaN (x87ops.c:2969-3135, 284-323).                  *)
(***************************************************************************)
\* an exception bit latched in SW whose mask bit in CW is clear
LatchedUnmasked(s) == BitAnd(BitAnd(s.sw, 63), 63 - BitAnd(s.cw, 63)) # 0

\* the observed call is an integer store of a NaN, entered with IE masked
\* and no unmasked exception latched
FistOfNaN ==
    /\ last.op \in FistOps
    /\ ~last.fault
    /\ ~X87_IS_ST_EMPTY(last.pre, 0)
    /\ floatx80_is_nan(ST(last.pre, 0))
    /\ BitAnd(last.pre.cw, X87_CW_IM) # 0
    /\ ~LatchedUnmasked(last.pre)

C24_ErrorSummary ==
    last.op # "none" =>
        (BitAnd(m_x87_sw, X87_SW_ES) # 0 <=> LatchedUnmasked(Cur))

(***************************************************************************)
(* Conditional moves (x87ops.c:1982-2172).                                 *)
(***************************************************************************)
FcmovOps ==
    {"x87_fcmovb_sti", "x87_fcmove_sti", "x87_fcmovbe_sti", "x87_fcmovu_sti",
     "x87_fcmovnb_sti", "x87_fcmovne_sti", "x87_fcmovnbe_sti",
     "x87_fcmovnu_sti"}

\* the host-flag condition of the observed FCMOVcc (the handlers leave the
\* host flags as they found them)
FcmovCond ==
    CASE last.op = "x87_fcmovb_sti" -> m_CF = 1
      [] last.op = "x87_fcmove_sti" -> m_ZF = 1
      [] last.op = "x87_fcmovbe_sti" -> m_CF = 1 \/ m_ZF = 1
      [] last.op = "x87_fcmovu_sti" -> m_PF = 1
      [] last.op = "x87_fcmovnb_sti" -> m_CF = 0
      [] last.op = "x87_fcmovne_sti" -> m_ZF = 0
      [] last.op = "x87_fcmovnbe_sti" -> m_CF = 0 /\ m_ZF = 0
      [] last.op = "x87_fcmovnu_sti" -> m_PF = 0
      [] OTHER -> FALSE

\* ST(0) received the former ST(i) and no other register changed
FcmovMoved ==
    /\ ST(Cur, 0) = ST(last.pre, last.arg)
    /\ \A r \in 0..7 :
           r # ST_TO_PHYS(last.pre, 0) => m_x87_reg[r] = last.pre.reg[r]

FcmovUnderflow ==
    /\ BitAnd(m_x87_sw, X87_SW_SF) # 0
    /\ BitAnd(m_x87_sw, X87_SW_IE) # 0
    /\ BitAnd(m_x87_sw, X87_SW_C1) = 0

FcmovUntouched ==
    /\ m_x87_sw = last.pre.sw
    /\ m_x87_tw = last.pre.tw
    /\ m_x87_reg = last.pre.reg

FlagComparePopOps == {"x87_fcomip_sti", "x87_fucomip_sti"}

FlagCompareOps == {"x87_fcomi_sti", "x87_fucomi_sti"} \cup FlagComparePopOps

FlagCompareEmpty ==
    X87_IS_ST_EMPTY(last.pre, 0) \/ X87_IS_ST_EMPTY(last.pre, last.arg)

\* C26: FCOMI, FCOMIP, FUCOMI and FUCOMIP write (ZF,PF,CF) = (0,0,0) when
\* ST(0) > ST(i), (0,0,1) when ST(0) < ST(i), (1,0,0) when they are equal
\* and (1,1,1) when they are unordered or an operand is EMPTY; they leave
\* C3, C2 and C0 of SW unchanged; the P forms advance TOP by one when
\* x87_check_exceptions succeeds.
C26_FlagCompare ==
    last.op \in FlagCompareOps =>
        /\ <<m_ZF, m_PF, m_CF>> =
               IF FlagCompareEmpty THEN <<1, 1, 1>>
               ELSE ExpectedCodes(ST(last.pre, 0), ST(last.pre, last.arg))
        /\ Codes(m_x87_sw) = Codes(last.pre.sw)
        /\ (last.op \in FlagComparePopOps /\ last.chk = "ok")
               => Top(Cur) = (Top(last.pre) + 1) % 8

\* FCOMIP ST(0),ST(1) with ST(0) below ST(1), entered with a condition
\* code set, has written (0,0,1), kept the codes and popped
C26_Witness ==
    /\ last.op = "x87_fcomip_sti"
    /\ last.arg = 1
    /\ ~FlagCompareEmpty
    /\ last.chk = "ok"
    /\ NumLess(ST(last.pre, 0), ST(last.pre, 1))
    /\ Codes(last.pre.sw) # <<0, 0, 0>>
    /\ <<m_ZF, m_PF, m_CF>> = <<0, 0, 1>>
    /\ Codes(m_x87_sw) = Codes(last.pre.sw)
    /\ Top(Cur) = (Top(last.pre) + 1) % 8

(***************************************************************************)
(* FINCSTP and FDECSTP (x87ops.c:4347-4365, 238-275).                      *)
(***************************************************************************)
\* C27: FINCSTP and FDECSTP change only TOP (by +1 and -1 modulo 8) and C1:
\* in every state, ST(0) non-EMPTY for FINCSTP and ST(7) non-EMPTY for
\* FDECSTP included, the tag word, the register values and the exception
\* bits of SW (IE..PE and SF) are unchanged.
C27_RotateOnly ==
    last.op \in {"x87_fincstp", "x87_fdecstp"} =>
        /\ Top(Cur) = (Top(last.pre)
                       + (IF last.op = "x87_fincstp" THEN 1 ELSE 7)) % 8
        /\ m_x87_tw = last.pre.tw
        /\ m_x87_reg = last.pre.reg
        /\ BitAnd(m_x87_sw, 127) = BitAnd(last.pre.sw, 127)

(***************************************************************************)
(* Tags after FRSTOR (x87ops.c:4666-4720, 4485-4493, 202-225).             *)
(***************************************************************************)
\* C28: after the in-core FRSTOR and the ABI frstor, every slot the tag
\* word does not leave EMPTY carries the tag obtained by inspecting the
\* value loaded into it (ZERO for a zero, SPECIAL for an infinity or a NaN,
\* VALID otherwise), whatever tag the memory image holds for it.
C28_RestoreRetags ==
    (last.op \in {"x87_frstor", "frstor"} /\ ~last.fault) =>
        \A r \in 0..7 :
            X87_TAG(Cur, r) # X87_TW_EMPTY
                => X87_TAG(Cur, r) = TagOf(m_x87_reg[r])

(***************************************************************************)
(* Subtraction of infinities (x87ops.c:734-1228).                          *)
(***************************************************************************)
\* handlers computing ST(0) - operand and operand - ST(0), by operand kind
SubMemOps ==
    {"x87_fsub_m32real", "x87_fsub_m64real", "x87_fisub_m32int",
     "x87_fisub_m16int"}

SubrMemOps ==
    {"x87_fsubr_m32real", "x87_fsubr_m64real", "x87_fisubr_m32int",
     "x87_fisubr_m16int"}

\* register forms whose minuend is ST(0), and those whose minuend is ST(i)
SubRegFromSt0 == {"x87_fsub_st_sti", "x87_fsubr_sti_st", "x87_fsubrp"}

SubRegFromSti == {"x87_fsub_sti_st", "x87_fsubp", "x87_fsubr_st_sti"}

SubRegOps == SubRegFromSt0 \cup SubRegFromSti

SubOps == SubMemOps \cup SubrMemOps \cup SubRegOps

\* the minuend a and the subtrahend b of the observed handler
SubMinuend ==
    IF last.op \in SubMemOps \cup SubRegFromSt0 THEN ST(last.pre, 0)
    ELSE IF last.op \in SubrMemOps THEN last.opd
    ELSE ST(last.pre, last.arg)

SubSubtrahend ==
    IF last.op \in SubrMemOps \cup SubRegFromSti THEN ST(last.pre, 0)
    ELSE IF last.op \in SubMemOps THEN last.opd
    ELSE ST(last.pre, last.arg)

\* the physical slot the difference is written to
SubDestination ==
    IF last.op \in {"x87_fsub_sti_st", "x87_fsubp", "x87_fsubr_sti_st",
                    "x87_fsubrp"}
    THEN ST_TO_PHYS(last.pre, last.arg)
    ELSE ST_TO_PHYS(last.pre, 0)

\* the observed call subtracted two infinities held in occupied operands
SubOfInfs ==
    /\ last.op \in SubOps
    /\ ~last.fault
    /\ ~X87_IS_ST_EMPTY(last.pre, 0)
    /\ last.op \in SubRegOps => ~X87_IS_ST_EMPTY(last.pre, last.arg)
    /\ floatx80_is_inf(SubMinuend)
    /\ floatx80_is_inf(SubSubtrahend)

\* C29: for every SUB and SUBR handler with minuend a and subtrahend b:
\* infinities of equal sign (infinity minus infinity) latch IE and give the
\* indefinite NaN; infinities of opposite sign do not: the result is the
\* infinity with the sign of a and IE is not latched.
C29_SubOfInfinities ==
    SubOfInfs =>
        IF SignOf(SubMinuend) = SignOf(SubSubtrahend)
        THEN /\ SwHas(Cur, X87_SW_IE)
             /\ last.chk = "ok" => m_x87_reg[SubDestination] = fx80_inan
        ELSE /\ (~SwHas(last.pre, X87_SW_IE)
                 /\ "float_flag_invalid" \notin last.pre.fl)
                    => ~SwHas(Cur, X87_SW_IE)
             /\ last.chk = "ok" => m_x87_reg[SubDestination] = SubMinuend

(***************************************************************************)
(* Constant loads and the rounding control (x87ops.c:3178-3393).           *)
(***************************************************************************)
IrrationalLoadOps ==
    {"x87_fldpi", "x87_fldl2t", "x87_fldl2e", "x87_fldlg2", "x87_fldln2"}

\* the constant of the observed load with its truncated significand
TruncatedConst ==
    CASE last.op = "x87_fldpi" -> FX(16384, 51471, 55970, 8552, 49716)
      [] last.op = "x87_fldl2t" -> FX(16384, 54426, 30795, 52507, 35582)
      [] last.op = "x87_fldl2e" -> FX(16383, 47274, 15145, 23575, 61627)
      [] last.op = "x87_fldlg2" -> FX(16381, 39456, 39556, 64463, 63384)
      [] last.op = "x87_fldln2" -> FX(16382, 45426, 6135, 53711, 31147)
      [] OTHER -> fx80_zero

\* a with its significand incremented by one unit in the last place
NextUp(a) == [a EXCEPT !.low[1] = a.low[1] + 1]

RcDownOrTruncate(s) ==
    X87_RC(s) = X87_CW_RC_DOWN \/ X87_RC(s) = X87_CW_RC_ZERO

\* the observed load pushed: ST(7) was EMPTY and the check succeeded
PushedConst ==
    /\ X87_IS_ST_EMPTY(last.pre, 7)
    /\ last.chk = "ok"

ExactConstPushed ==
    /\ (last.op = "x87_fld1" /\ PushedConst) => ST(Cur, 0) = fx80_one
    /\ (last.op = "x87_fldz" /\ PushedConst) => ST(Cur, 0) = fx80_zero

\* C30: on a successful push each irrational constant load (FLDPI, FLDL2T,
\* FLDL2E, FLDLG2, FLDLN2) pushes the truncated significand when RC is down
\* or truncate and that significand plus one when RC is nearest or up;
\* FLD1 and FLDZ push the same value for every RC.
C30_ConstByRC ==
    /\ (last.op \in IrrationalLoadOps /\ PushedConst) =>
           ST(Cur, 0) = IF RcDownOrTruncate(last.pre) THEN TruncatedConst
                        ELSE NextUp(TruncatedConst)
    /\ ExactConstPushed

\* C30 (amended): FLDL2T pushes the incremented significand only when RC is
\* up; under round to nearest it pushes the truncated one.
C30_Amended ==
    /\ (last.op \in IrrationalLoadOps /\ PushedConst) =>
           ST(Cur, 0) =
               IF \/ RcDownOrTruncate(last.pre)
                  \/ (last.op = "x87_fldl2t"
                      /\ X87_RC(last.pre) = X87_CW_RC_NEAREST)
               THEN TruncatedConst
               ELSE NextUp(TruncatedConst)
    /\ ExactConstPushed

\* FLDL2T under round to nearest has pushed the truncated significand
C30_Witness ==
    /\ last.op = "x87_fldl2t"
    /\ PushedConst
    /\ X87_RC(last.pre) = X87_CW_RC_NEAREST
    /\ ST(Cur, 0) = FX(16384, 54426, 30795, 52507, 35582)

(***************************************************************************)
(* FPREM and the quotient bits (x87ops.c:2180-2232).                       *)
(***************************************************************************)
\* the truncated quotient of ST(0) by ST(1) before the observed FPREM
FpremQuotient ==
    ToInt64Rtz(floatx80_div(ST(last.pre, 0), ST(last.pre, 1), last.pre.rm).v).q

AbsInt(n) == IF n < 0 THEN -n ELSE n

BitOf(n, k) == (n \div Pow2(k)) % 2

\* the observed call is an FPREM of two occupied registers whose exponents
\* differ by less than 64
FpremReduced ==
    /\ last.op = "x87_fprem"
    /\ ~X87_IS_ST_EMPTY(last.pre, 0)
    /\ ~X87_IS_ST_EMPTY(last.pre, 1)
    /\ ExpOf(ST(last.pre, 0)) - ExpOf(ST(last.pre, 1)) < 64

\* C31: after FPREM with both operands non-EMPTY and exponent difference
\* below 64, C1, C3 and C0 are bits 0, 1 and 2 of |q|, q the truncated
\* quotient of ST(0) by ST(1), and C2 is 0, for negative q as for positive.
C31_FpremQuotientBits ==
    FpremReduced =>
        /\ BitOf(m_x87_sw, 9) = BitOf(AbsInt(FpremQuotient), 0)
        /\ BitOf(m_x87_sw, 14) = BitOf(AbsInt(FpremQuotient), 1)
        /\ BitOf(m_x87_sw, 8) = BitOf(AbsInt(FpremQuotient), 2)
        /\ BitOf(m_x87_sw, 10) = 0

(***************************************************************************)
(* FYL2X and its operand check (x87ops.c:2322-2357).                       *)
(***************************************************************************)
Fyl2xRan ==
    /\ last.op = "x87_fyl2x"
    /\ ~X87_IS_ST_EMPTY(last.pre, 0)
    /\ ~X87_IS_ST_EMPTY(last.pre, 1)
    /\ ~floatx80_is_nan(ST(last.pre, 0))

\* ST(0) is +0, -0 or negative
Fyl2xNotPositive ==
    floatx80_is_zero(ST(last.pre, 0)) \/ SignOf(ST(last.pre, 0)) = 1

\* ST(1) is a finite non-zero number
Fyl2xPlainY ==
    /\ ExpOf(ST(last.pre, 1)) # 32767
    /\ ~floatx80_is_zero(ST(last.pre, 1))

\* C32: FYL2X with ST(0) and ST(1) non-EMPTY: when ST(0) is +0, -0 or
\* negative, IE is latched and, with IE masked and the check succeeding,
\* the former ST(1) receives the indefinite NaN; when ST(0) > 0 (and ST(1)
\* is a finite non-zero number) IE is not latched by the handler.
C32_Fyl2xOperandCheck ==
    Fyl2xRan =>
        IF Fyl2xNotPositive
        THEN /\ SwHas(Cur, X87_SW_IE)
             /\ (CwHas(last.pre, X87_CW_IM) /\ last.chk = "ok")
                    => m_x87_reg[ST_TO_PHYS(last.pre, 1)] = fx80_inan
        ELSE (/\ Fyl2xPlainY
              /\ ~SwHas(last.pre, X87_SW_IE)
              /\ "float_flag_invalid" \notin last.pre.fl)
                 => ~SwHas(Cur, X87_SW_IE)

(***************************************************************************)
(* FXAM (x87ops.c:3580-3612).                                              *)
(***************************************************************************)
\* s with another value in the slot of ST(0), the tag word kept
WithSt0(s, v) == [s EXCEPT !.reg[ST_TO_PHYS(s, 0)] = v]

\* the class FXAM is to report for ST(0)
FxamClass(s) ==
    IF X87_IS_ST_EMPTY(s, 0) THEN "empty"
    ELSE IF floatx80_is_nan(ST(s, 0)) THEN "nan"
    ELSE IF floatx80_is_inf(ST(s, 0)) THEN "infinity"
    ELSE IF floatx80_is_zero(ST(s, 0)) THEN "zero"
    ELSE IF ExpOf(ST(s, 0)) # 0 /\ ST(s, 0).low[4] >= 32768 THEN "normal"
    ELSE "other"

\* values of each class, as a slot may hold them
FxamSamples ==
    {fx80_zero, fx80_one, fx80_mone, fx80_pinf, fx80_ninf, fx80_qnan,
     fx80_inan}

FxamClasses == {"empty", "nan", "infinity", "zero", "normal"}

\* FXAM wrote nothing but C0..C3, and C1 is the sign bit of ST(0)
FxamFrame(s) ==
    /\ Fxam(s).reg = s.reg
    /\ Fxam(s).tw = s.tw
    /\ Fxam(s).cw = s.cw
    /\ BitClear(Fxam(s).sw, CBits) = BitClear(s.sw, CBits)
    /\ BitOf(Fxam(s).sw, 9) = SignOf(ST(s, 0))

\* the code depends on the class alone and separates the classes
FxamByClass(s) ==
    \A v \in FxamSamples :
        (/\ FxamClass(s) \in FxamClasses
         /\ FxamClass(WithSt0(s, v)) \in FxamClasses)
        => (Codes(Fxam(WithSt0(s, v)).sw) = Codes(Fxam(s).sw)
            <=> FxamClass(WithSt0(s, v)) = FxamClass(s))

\* C33: FXAM changes only C0..C3 of SW, sets C1 to the sign bit of ST(0),
\* and writes a C3/C2/C0 code determined by the class of ST(0) alone, with
\* pairwise distinct codes for empty, NaN, normal, infinity and zero: an
\* EMPTY slot gets the same code whatever stale value it holds.
C33_FxamClassifies ==
    FxamFrame(Cur) /\ FxamByClass(Cur)

(***************************************************************************)
(* FCLEX (x87ops.c:4367-4372, 4472-4475).                                  *)
(***************************************************************************)
FclexOps == {"x87_fclex", "fclex"}

FclexKeepsRest ==
    /\ m_x87_cw = last.pre.cw
    /\ m_x87_tw = last.pre.tw
    /\ m_x87_reg = last.pre.reg

\* C34: FCLEX and the ABI fclex clear exactly bits 0..7 of SW (IE, DE, ZE,
\* OE, UE, PE, SF, ES) and leave every other bit of SW (C0..C3, TOP, BUSY),
\* CW, TW and the registers unchanged.
C34_FclexLowByte ==
    last.op \in FclexOps =>
        /\ m_x87_sw = BitClear(last.pre.sw, 255)
        /\ FclexKeepsRest

\* C34 (amended): the bits cleared are bits 0..7 and BUSY (bit 15); C0..C3,
\* TOP, CW, TW and the registers are unchanged.
C34_Amended ==
    last.op \in FclexOps =>
        /\ m_x87_sw = BitClear(last.pre.sw, 255 + X87_SW_BUSY)
        /\ FclexKeepsRest

\* FCLEX entered with BUSY set and TOP = 7 has cleared BUSY and kept TOP
C34_Witness ==
    /\ last.op = "x87_fclex"
    /\ BitAnd(last.pre.sw, X87_SW_BUSY) # 0
    /\ Top(last.pre) = 7
    /\ m_x87_sw = 14336

(***************************************************************************)
(* x87_inc_stack and x87_dec_stack applied to the current state            *)
(* (x87ops.c:238-275).                                                     *)
(***************************************************************************)
StackFaultBits == X87_SW_IE + X87_SW_SF + X87_SW_C1
TopBits == 7 * 2048

\* SW apart from TOP
SwNoTop(s) == BitClear(s.sw, TopBits)

\* r is s with SF and IE latched and C1 = c1, nothing else of SW changed
\* apart from TOP
LatchesStackFault(s, r, c1) ==
    /\ SwHas(r, X87_SW_IE) /\ SwHas(r, X87_SW_SF)
    /\ SwHas(r, X87_SW_C1) = c1
    /\ BitClear(SwNoTop(r), StackFaultBits) = BitClear(SwNoTop(s), StackFaultBits)

StackFrame(s, r) == r.reg = s.reg /\ r.cw = s.cw

IncStackAsClaimed(s) ==
    LET r == x87_inc_stack(s) IN
    /\ StackFrame(s, r)
    /\ IF X87_IS_ST_EMPTY(s, 0)
       THEN /\ r.ret = 0
            /\ LatchesStackFault(s, r, FALSE)
            /\ (Top(r) = Top(s) /\ r.tw = s.tw) <=> ~CwHas(s, X87_CW_IM)
            /\ CwHas(s, X87_CW_IM) => Top(r) = (Top(s) + 1) % 8
       ELSE /\ r.ret = 1
            /\ SwNoTop(r) = SwNoTop(s)
            /\ Top(r) = (Top(s) + 1) % 8
            /\ X87_TAG(r, Top(s)) = X87_TW_EMPTY
            /\ \A p \in 0..7 : p # Top(s) => X87_TAG(r, p) = X87_TAG(s, p)

DecStackAsClaimed(s) ==
    LET r == x87_dec_stack(s) IN
    /\ StackFrame(s, r)
    /\ IF ~X87_IS_ST_EMPTY(s, 7)
       THEN /\ r.ret = 0
            /\ LatchesStackFault(s, r, TRUE)
            /\ (Top(r) = Top(s) /\ r.tw = s.tw) <=> ~CwHas(s, X87_CW_IM)
            /\ CwHas(s, X87_CW_IM) => Top(r) = (Top(s) + 7) % 8
       ELSE /\ r.ret = 1
            /\ SwNoTop(r) = SwNoTop(s)
            /\ Top(r) = (Top(s) + 7) % 8
            /\ r.tw = s.tw

\* C35: on a stack fault (ST(0) EMPTY for inc, ST(7) non-EMPTY for dec)
\* x87_inc_stack / x87_dec_stack return 0 and latch SF and IE, with C1 cleared
\* for inc and set for dec; TOP and TW stay unchanged iff IM is clear, and
\* with IM set TOP still moves by one.  Without a fault inc tags the old top
\* EMPTY and adds 1 to TOP modulo 8, dec subtracts 1 modulo 8 and leaves TW
\* unchanged, and both return 1 without touching the exception bits.
C35_StackMoves == IncStackAsClaimed(Cur) /\ DecStackAsClaimed(Cur)

\* a state in which x87_dec_stack faults with IM clear and x87_inc_stack
\* pops a non-empty ST(0) carrying C1
C35_Witness ==
    /\ ~X87_IS_ST_EMPTY(Cur, 7)
    /\ ~X87_IS_ST_EMPTY(Cur, 0)
    /\ ~CwHas(Cur, X87_CW_IM)
    /\ x87_dec_stack(Cur).ret = 0
    /\ Top(x87_dec_stack(Cur)) = Top(Cur)
    /\ x87_inc_stack(Cur).ret = 1

(***************************************************************************)
(* x87_check_exceptions applied to the current state (x87ops.c:284-323).   *)
(***************************************************************************)
\* an exception bit is set in (SW AND NOT CW) once the SoftFloat flags have
\* been moved into SW
UnmaskedAfterDrain(s) ==
    LET r == x87_check_exceptions(s) IN
    BitAnd(BitAnd(r.sw, BitNot16(r.cw)), 63) # 0

CheckExceptionsAsClaimed(s) ==
    LET r == x87_check_exceptions(s)
        raise == UnmaskedAfterDrain(s) /\ BitAnd(s.cr0, CR0_NE) # 0
    IN  /\ (r.ret = 0) <=> r.trap
        /\ r.trap <=> raise
        /\ ~raise => r.ret = 1

\* C36: x87_check_exceptions returns failure exactly when it raises the
\* math-fault trap, that is when (SW AND NOT CW) has one of the six exception
\* bits set and CR0.NE is set; with no unmasked exception latched, or with
\* CR0.NE clear, it returns success and raises no trap.
C36_FailureIffTrap == CheckExceptionsAsClaimed(Cur)

(***************************************************************************)
(* Opcode table building (x87ops.c:4859-5224).  A group g in 0..7 stands   *)
(* for the escape opcode D8h + g.  The case labels of each build function  *)
(* are a function from the selector (bits 5:3 of modrm for modrm < C0h,    *)
(* modrm itself otherwise) to the handler assigned under that label; an    *)
(* entry that no label selects keeps the initial value of ptr.             *)
(***************************************************************************)
\* eight consecutive case labels base .. base + 7 with one handler
Row(base, name) == [m \in base..(base + 7) |-> name]

\* case labels 0 .. 7 of the switch on (modrm >> 3) & 0x7, in order
Mem8(names) == [k \in 0..7 |-> names[k + 1]]

MemCases_d8 ==
    Mem8(<<"x87_fadd_m32real", "x87_fmul_m32real", "x87_fcom_m32real",
           "x87_fcomp_m32real", "x87_fsub_m32real", "x87_fsubr_m32real",
           "x87_fdiv_m32real", "x87_fdivr_m32real">>)

RegCases_d8 ==
    Row(192, "x87_fadd_st_sti") @@ Row(200, "x87_fmul_st_sti") @@
    Row(208, "x87_fcom_sti") @@ Row(216, "x87_fcomp_sti") @@
    Row(224, "x87_fsub_st_sti") @@ Row(232, "x87_fsubr_st_sti") @@
    Row(240, "x87_fdiv_st_sti") @@ Row(248, "x87_fdivr_st_sti")

MemCases_d9 ==
    (0 :> "x87_fld_m32real") @@ (2 :> "x87_fst_m32real") @@
    (3 :> "x87_fstp_m32real") @@ (4 :> "x87_fldenv") @@ (5 :> "x87_fldcw") @@
    (6 :> "x87_fstenv") @@ (7 :> "x87_fstcw")

RegCases_d9 ==
    Row(192, "x87_fld_sti") @@ Row(200, "x87_fxch_sti") @@
    (208 :> "x87_fnop") @@ (224 :> "x87_fchs") @@ (225 :> "x87_fabs") @@
    (228 :> "x87_ftst") @@ (229 :> "x87_fxam") @@ (232 :> "x87_fld1") @@
    (233 :> "x87_fldl2t") @@ (234 :> "x87_fldl2e") @@ (235 :> "x87_fldpi") @@
    (236 :> "x87_fldlg2") @@ (237 :> "x87_fldln2") @@ (238 :> "x87_fldz") @@
    (240 :> "x87_f2xm1") @@ (241 :> "x87_fyl2x") @@ (242 :> "x87_fptan") @@
    (243 :> "x87_fpatan") @@ (244 :> "x87_fxtract") @@
    (245 :> "x87_fprem1") @@ (246 :> "x87_fdecstp") @@
    (247 :> "x87_fincstp") @@ (248 :> "x87_fprem") @@
    (249 :> "x87_fyl2xp1") @@ (250 :> "x87_fsqrt") @@
    (251 :> "x87_fsincos") @@ (252 :> "x87_frndint") @@
    (253 :> "x87_fscale") @@ (254 :> "x87_fsin") @@ (255 :> "x87_fcos")

MemCases_da ==
    Mem8(<<"x87_fiadd_m32int", "x87_fimul_m32int", "x87_ficom_m32int",
           "x87_ficomp_m32int", "x87_fisub_m32int", "x87_fisubr_m32int",
           "x87_fidiv_m32int", "x87_fidivr_m32int">>)

RegCases_da ==
    Row(192, "x87_fcmovb_sti") @@ Row(200, "x87_fcmove_sti") @@
    Row(208, "x87_fcmovbe_sti") @@ Row(216, "x87_fcmovu_sti") @@
    (233 :> "x87_fucompp")

MemCases_db ==
    (0 :> "x87_fild_m32int") @@ (2 :> "x87_fist_m32int") @@
    (3 :> "x87_fistp_m32int") @@ (5 :> "x87_fld_m80real") @@
    (7 :> "x87_fstp_m80real")

RegCases_db ==
    Row(192, "x87_fcmovnb_sti") @@ Row(200, "x87_fcmovne_sti") @@
    Row(208, "x87_fcmovnbe_sti") @@ Row(216, "x87_fcmovnu_sti") @@
    (224 :> "x87_fnop") @@ (225 :> "x87_fnop") @@ (226 :> "x87_fclex") @@
    (227 :> "x87_finit") @@ (228 :> "x87_fnop") @@
    Row(232, "x87_fucomi_sti") @@ Row(240, "x87_fcomi_sti")

MemCases_dc ==
    Mem8(<<"x87_fadd_m64real", "x87_fmul_m64real", "x87_fcom_m64real",
           "x87_fcomp_m64real", "x87_fsub_m64real", "x87_fsubr_m64real",
           "x87_fdiv_m64real", "x87_fdivr_m64real">>)

RegCases_dc ==
    Row(192, "x87_fadd_sti_st") @@ Row(200, "x87_fmul_sti_st") @@
    Row(224, "x87_fsubr_sti_st") @@ Row(232, "x87_fsub_sti_st") @@
    Row(240, "x87_fdivr_sti_st") @@ Row(248, "x87_fdiv_sti_st")

MemCases_dd ==
    (0 :> "x87_fld_m64real") @@ (2 :> "x87_fst_m64real") @@
    (3 :> "x87_fstp_m64real") @@ (4 :> "x87_frstor") @@ (6 :> "x87_fsave") @@
    (7 :> "x87_fstsw_m2byte")

RegCases_dd ==
    Row(192, "x87_ffree") @@ Row(200, "x87_fxch_sti") @@
    Row(208, "x87_fst_sti") @@ Row(216, "x87_fstp_sti") @@
    Row(224, "x87_fucom_sti") @@ Row(232, "x87_fucomp_sti")

MemCases_de ==
    Mem8(<<"x87_fiadd_m16int", "x87_fimul_m16int", "x87_ficom_m16int",
           "x87_ficomp_m16int", "x87_fisub_m16int", "x87_fisubr_m16int",
           "x87_fidiv_m16int", "x87_fidivr_m16int">>)

RegCases_de ==
    Row(192, "x87_faddp") @@ Row(200, "x87_fmulp") @@
    (217 :> "x87_fcompp") @@
    Row(224, "x87_fsubrp") @@ Row(232, "x87_fsubp") @@
    Row(240, "x87_fdivrp") @@ Row(248, "x87_fdivp")

MemCases_df ==
    (0 :> "x87_fild_m16int") @@ (2 :> "x87_fist_m16int") @@
    (3 :> "x87_fistp_m16int") @@ (4 :> "x87_fbld") @@
    (5 :> "x87_fild_m64int") @@ (6 :> "x87_fbstp") @@
    (7 :> "x87_fistp_m64int")

RegCases_df ==
    (224 :> "x87_fstsw_ax") @@ Row(232, "x87_fucomip_sti") @@
    Row(240, "x87_fcomip_sti")

MemCases ==
    <<MemCases_d8, MemCases_d9, MemCases_da, MemCases_db,
      MemCases_dc, MemCases_dd, MemCases_de, MemCases_df>>

RegCases ==
    <<RegCases_d8, RegCases_d9, RegCases_da, RegCases_db,
      RegCases_dc, RegCases_dd, RegCases_de, RegCases_df>>

\* the selector of the memory forms taken from the low three bits
MemSelector_low(modrm) == modrm % 8

\* (modrm >> 3) & 0x7
MemSelector(modrm) == (modrm \div 8) % 8

\* the body of the loop of build_x87_opcode_table_dX for one modrm:
\* ptr = x87_invalid, overwritten by the case that matches
TableEntry(g, modrm) ==
    IF modrm < 192
    THEN (IF MemSelector(modrm) \in DOMAIN MemCases[g + 1]
          THEN MemCases[g + 1][MemSelector(modrm)]
          ELSE "x87_invalid")
    ELSE (IF modrm \in DOMAIN RegCases[g + 1]
          THEN RegCases[g + 1][modrm]
          ELSE "x87_invalid")

\* the tables before build_x87_opcode_table has run
UnbuiltTable == [g \in 0..7 |-> [modrm \in 0..255 |-> "unassigned"]]

InitTable ==
    /\ m_x87_reg = StartReset(0).reg
    /\ m_x87_sw = StartReset(0).sw
    /\ m_x87_cw = StartReset(0).cw
    /\ m_x87_tw = StartReset(0).tw
    /\ float_rounding_mode = StartReset(0).rm
    /\ float_exception_flags = {}
    /\ m_CF = 0 /\ m_ZF = 0 /\ m_PF = 0
    /\ m_cr0 = 0
    /\ m_operand_size = 0
    /\ mem = NoMem
    /\ last = NoCall
    /\ nsteps = 0
    /\ bcd = NoBcd
    /\ m_opcode_table_x87 = UnbuiltTable
    /\ build_modrm = 0

\* the build functions run in the order d8 .. df (x87ops.c:5214-5224), each
\* for modrm = 0 .. 255
Building(g) == build_modrm \div 256 = g

\* one iteration of the loop of the build function of group g
BuildStep(g) ==
    /\ m_opcode_table_x87' =
           [m_opcode_table_x87 EXCEPT ![g][build_modrm % 256] =
                TableEntry(g, build_modrm % 256)]
    /\ build_modrm' = build_modrm + 1
    /\ UNCHANGED <<m_x87_reg, m_x87_sw, m_x87_cw, m_x87_tw, float_rounding_mode,
                   float_exception_flags, m_CF, m_ZF, m_PF, m_cr0,
                   m_operand_size, mem, last, nsteps, bcd>>

build_x87_opcode_table_d8 ==
    /\ Building(0)
    /\ BuildStep(0)

build_x87_opcode_table_d9 ==
    /\ Building(1)
    /\ BuildStep(1)

build_x87_opcode_table_da ==
    /\ Building(2)
    /\ BuildStep(2)

build_x87_opcode_table_db ==
    /\ Building(3)
    /\ BuildStep(3)

build_x87_opcode_table_dc ==
    /\ Building(4)
    /\ BuildStep(4)

build_x87_opcode_table_dd ==
    /\ Building(5)
    /\ BuildStep(5)

build_x87_opcode_table_de ==
    /\ Building(6)
    /\ BuildStep(6)

build_x87_opcode_table_df ==
    /\ Building(7)
    /\ BuildStep(7)


build_x87_opcode_table ==
    \/ build_x87_opcode_table_d8
    \/ build_x87_opcode_table_d9
    \/ build_x87_opcode_table_da
    \/ build_x87_opcode_table_db
    \/ build_x87_opcode_table_dc
    \/ build_x87_opcode_table_dd
    \/ build_x87_opcode_table_de
    \/ build_x87_opcode_table_df

SpecTable == InitTable /\ [][build_x87_opcode_table]_vars

TableSize == 8 * 256
TableBuilt == build_modrm = TableSize

\* a (group, modrm) pair that some case label of the build function selects
HasCase(g, modrm) ==
    IF modrm < 192 THEN (modrm \div 8) % 8 \in DOMAIN MemCases[g + 1]
    ELSE modrm \in DOMAIN RegCases[g + 1]

EveryEntryAssigned ==
    \A g \in 0..7, modrm \in 0..255 :
        m_opcode_table_x87[g][modrm] # "unassigned"

MemFormsByReg ==
    \A g \in 0..7, m1 \in 0..191, m2 \in 0..191 :
        (m1 \div 8) % 8 = (m2 \div 8) % 8 =>
            m_opcode_table_x87[g][m1] = m_opcode_table_x87[g][m2]

InvalidWhereUndefined ==
    \A g \in 0..7, modrm \in 0..255 :
        m_opcode_table_x87[g][modrm] = "x87_invalid" <=> ~HasCase(g, modrm)

FcomppOnlyDeD9 ==
    \A g \in 0..7, modrm \in 0..255 :
        m_opcode_table_x87[g][modrm] = "x87_fcompp" <=> (g = 6 /\ modrm = 217)

\* C37: after build_x87_opcode_table every one of the 8 x 256 entries is
\* assigned; for modrm < C0h the entry depends only on bits 5:3 of modrm;
\* every entry with no defined operation is x87_invalid; x87_fcompp is
\* reachable only as entry D9h of the DE table.
C37_TableBuilt ==
    TableBuilt =>
        /\ EveryEntryAssigned
        /\ MemFormsByReg
        /\ InvalidWhereUndefined
        /\ FcomppOnlyDeD9

\* the tables are complete, with FCOMPP at DE D9 and invalid entries around it
C37_Witness ==
    /\ TableBuilt
    /\ m_opcode_table_x87[6][217] = "x87_fcompp"
    /\ m_opcode_table_x87[6][216] = "x87_invalid"
    /\ m_opcode_table_x87[1][8] = "x87_invalid"
    /\ m_opcode_table_x87[1][63] = "x87_fstcw"

(***************************************************************************)
(* Handlers that commit only when x87_check_exceptions succeeds, entered   *)
(* with an unmasked exception latched (x87ops.c:284-323, 486-1973,         *)
(* 2766-2810, 3951-4230).                                                  *)
(***************************************************************************)
ArithMemOps ==
    {"x87_fadd_m32real", "x87_fadd_m64real", "x87_fiadd_m32int",
     "x87_fiadd_m16int", "x87_fsub_m32real", "x87_fsub_m64real",
     "x87_fisub_m32int", "x87_fisub_m16int", "x87_fsubr_m32real",
     "x87_fsubr_m64real", "x87_fisubr_m32int", "x87_fisubr_m16int",
     "x87_fmul_m32real", "x87_fmul_m64real", "x87_fimul_m32int",
     "x87_fimul_m16int", "x87_fdiv_m32real", "x87_fdiv_m64real",
     "x87_fidiv_m32int", "x87_fidiv_m16int", "x87_fdivr_m32real",
     "x87_fdivr_m64real", "x87_fidivr_m32int", "x87_fidivr_m16int"}

ComparePopOps ==
    {"x87_fcomp_sti", "x87_fcomp_m32real", "x87_fcomp_m64real",
     "x87_ficomp_m16int", "x87_ficomp_m32int", "x87_fucomp_sti",
     "x87_fcompp", "x87_fucompp", "x87_fcomip_sti", "x87_fucomip_sti"}

GuardedOps ==
    RegArithOps \cup ArithMemOps \cup ComparePopOps
        \cup {"x87_fst_sti", "x87_fstp_sti"}

\* C38: once an exception bit is latched in SW whose mask bit in CW is clear,
\* every later arithmetic handler, FST ST(i) / FSTP ST(i) and compare-and-pop
\* handler leaves the register values, the tag word and TOP unchanged,
\* whatever its operands, and the exception stays latched and unmasked; only
\* a handler that rewrites SW or CW (FCLEX, FINIT, FLDCW, FLDENV, FRSTOR) ends
\* this.
C38_FrozenWhileLatched ==
    [][(LatchedUnmasked(Cur) /\ last'.op \in GuardedOps) =>
          /\ m_x87_reg' = m_x87_reg
          /\ m_x87_tw' = m_x87_tw
          /\ (m_x87_sw' \div 2048) % 8 = (m_x87_sw \div 2048) % 8
          /\ BitAnd(BitAnd(m_x87_sw', 63), 63 - BitAnd(m_x87_cw', 63)) # 0]_vars

\* FDIVP ST(1),ST entered with both operands occupied and an unmasked
\* exception latched has left the stack as it was
C38_Witness ==
    /\ last.op = "x87_fdivp"
    /\ last.arg = 1
    /\ LatchedUnmasked(last.pre)
    /\ ~X87_IS_ST_EMPTY(last.pre, 0)
    /\ ~X87_IS_ST_EMPTY(last.pre, 1)
    /\ m_x87_reg = last.pre.reg
    /\ m_x87_tw = last.pre.tw
    /\ Top(Cur) = Top(last.pre)

(***************************************************************************)
(* Loads and popping stores from reset (x87ops.c:238-275, 2639-2658,       *)
(* 2919-2966, 4234-4320).  The run starts with FINIT, so every exception   *)
(* is masked, and takes up to MaxStackSteps handlers.  last.op names the   *)
(* handler that ran last and last.arg its register operand; last.opd.high  *)
(* counts the handlers so far as long as all of them were loads.           *)
(***************************************************************************)
MaxStackSteps == 10
MaxStackSti == 2

\* FINIT at start-up, and FINIT on a full stack with an unmasked exception
\* latched
StackStartSet == {StartReset(0), StartFullUnmasked}

InitStack ==
    \E s0 \in StackStartSet :
        LET s == x87_reset(s0) IN
        /\ m_x87_reg = s.reg
        /\ m_x87_sw = s.sw
        /\ m_x87_cw = s.cw
        /\ m_x87_tw = s.tw
        /\ float_rounding_mode = s.rm
        /\ float_exception_flags = s.fl
        /\ m_CF = 0 /\ m_ZF = 0 /\ m_PF = 0
        /\ m_cr0 = s.cr0
        /\ m_operand_size = 0
        /\ mem = NoMem
        /\ last = NoCall
        /\ nsteps = 0
        /\ bcd = NoBcd
        /\ m_opcode_table_x87 = NoTable
        /\ build_modrm = 0

\* every handler of the run so far was a load
OnlyLoads == last.opd.high = nsteps

StackDo(name, i, isLoad, r) ==
    /\ nsteps < MaxStackSteps
    /\ r.ok
    /\ m_x87_reg' = r.reg
    /\ m_x87_sw' = r.sw
    /\ m_x87_cw' = r.cw
    /\ m_x87_tw' = r.tw
    /\ float_rounding_mode' = r.rm
    /\ float_exception_flags' = r.fl
    /\ mem' = r.mem
    /\ nsteps' = nsteps + 1
    /\ last' = [NoCall EXCEPT
                   !.op = name, !.arg = i,
                   !.opd = FX(IF isLoad /\ OnlyLoads THEN nsteps + 1 ELSE 0,
                              0, 0, 0, 0)]
    /\ UNCHANGED <<m_CF, m_ZF, m_PF, m_cr0, m_operand_size, bcd,
                   m_opcode_table_x87, build_modrm>>

stack_fld_m80real ==
    /\ TRUE
    /\ StackDo("x87_fld_m80real", 0, TRUE, LoadM80(Cur, fx80_one, FALSE))

stack_fld1 ==
    /\ TRUE
    /\ StackDo("x87_fld1", 0, TRUE, Fld1(Cur))

stack_fstp_m80real ==
    /\ TRUE
    /\ StackDo("x87_fstp_m80real", 0, FALSE,
               LET p == StoreFetch(Cur)
                   s1 == x87_check_exceptions(p.s)
               IN  IF s1.ret = 1
                   THEN x87_inc_stack(Write(s1, "m80real", Words80(p.result)))
                   ELSE s1)

stack_fstp_sti ==
    /\ TRUE
    /\ \E i \in 0..MaxStackSti :
           StackDo("x87_fstp_sti", i, FALSE, StoreSti(Cur, i, TRUE))

NextStack ==
    \/ stack_fld_m80real
    \/ stack_fld1
    \/ stack_fstp_m80real
    \/ stack_fstp_sti

SpecStack == InitStack /\ [][NextStack]_vars

\* the physical slots that are not EMPTY
Occupied(s) == {p \in 0..7 : X87_TAG(s, p) # X87_TW_EMPTY}

\* the non-EMPTY slots are TOP, TOP + 1, ... (modulo 8)
ContiguousFromTop(s) ==
    Occupied(s) = {(Top(s) + j) % 8 : j \in 0..(Cardinality(Occupied(s)) - 1)}

\* k loads and nothing else have run since FINIT, k in 1..8: no stack fault,
\* TOP = (8 - k) mod 8, exactly the slots 8-k .. 7 occupied; k = 9: SF, IE
\* and C1 latched
LoadsFromReset ==
    (OnlyLoads /\ nsteps >= 1) =>
        IF nsteps <= 8
        THEN /\ ~SwHas(Cur, X87_SW_SF)
             /\ ~SwHas(Cur, X87_SW_IE)
             /\ Top(Cur) = (8 - nsteps) % 8
             /\ Occupied(Cur) = (8 - nsteps)..7
        ELSE (nsteps = 9 =>
                 /\ SwHas(Cur, X87_SW_SF)
                 /\ SwHas(Cur, X87_SW_IE)
                 /\ SwHas(Cur, X87_SW_C1))

\* C39: after FINIT, k consecutive loads (1 <= k <= 8) latch no stack fault
\* and leave TOP = (8 - k) mod 8 with exactly the physical slots 8-k .. 7
\* non-EMPTY, and a ninth load latches SF, IE and C1; under any sequence of
\* loads and popping stores from reset the non-EMPTY physical slots form a
\* contiguous run (modulo 8) that starts at TOP.
C39_StackRun == LoadsFromReset /\ ContiguousFromTop(Cur)

\* the step is a load, a popping store to memory, or an FSTP ST(i) whose
\* target lies within or right behind the occupied run
WithinRun ==
    last'.op = "x87_fstp_sti" => last'.arg <= Cardinality(Occupied(Cur))

\* C39 (amended): the count of loads is as stated; the contiguous run is
\* kept by every load, every popping store to memory and every FSTP ST(i)
\* with i no greater than the number of occupied registers.
C39_Amended ==
    /\ []LoadsFromReset
    /\ [][(ContiguousFromTop(Cur) /\ WithinRun) =>
              ContiguousFromTop([Cur EXCEPT !.sw = m_x87_sw',
                                            !.tw = m_x87_tw'])]_vars

\* eight loads and nothing else have filled the stack
C39_Witness ==
    /\ OnlyLoads
    /\ nsteps = 8
    /\ Top(Cur) = 0
    /\ Occupied(Cur) = 0..7
    /\ ~SwHas(Cur, X87_SW_SF)

(***************************************************************************)
(* The precision-control switch of x87_add, x87_sub, x87_mul and x87_div   *)
(* (x87ops.c:52-56, 353-471).                                              *)
(***************************************************************************)
CoreOps == {"add", "sub", "mul", "div"}

\* the current state with precision control pc
WithPC(s, pc) ==
    [s EXCEPT !.cw = BitClear(s.cw, X87_CW_PC_MASK * Pow2(X87_CW_PC_SHIFT))
                         + pc * Pow2(X87_CW_PC_SHIFT)]

\* v is a NaN, an infinity, a zero, or has a significand of 24 (53) bits
Special80(v) == ExpOf(v) = 32767 \/ floatx80_is_zero(v)
IsSingle(v) ==
    Special80(v) \/ (v.low[1] = 0 /\ v.low[2] = 0 /\ v.low[3] % 256 = 0)
IsDouble(v) == Special80(v) \/ v.low[1] % 2048 = 0

\* x87_add .. x87_div on the values held by ST(0) and ST(1), under each
\* precision control; evaluated in the states from which a handler can be
\* called
CoreByPC(s) ==
    \A op \in CoreOps :
        LET a == ST(s, 0)
            b == ST(s, 1)
            ext == Kernel(op, a, b, s.rm)
            r0 == x87_arith(op, WithPC(s, X87_CW_PC_SINGLE), a, b)
            r1 == x87_arith(op, WithPC(s, 1), a, b)
            r2 == x87_arith(op, WithPC(s, X87_CW_PC_DOUBLE), a, b)
            r3 == x87_arith(op, WithPC(s, X87_CW_PC_EXTEND), a, b)
        IN  /\ r1 = Exact(fx80_zero)
            /\ r3 = ext
            /\ r0.ok => IsSingle(r0.v)
            /\ r2.ok => IsDouble(r2.v)
            /\ (r0.ok /\ r2.ok /\ r0.f = {} /\ ~floatx80_is_nan(r0.v)) =>
                   r2.v = r0.v

ArithSt0Ops ==
    {"x87_fadd_st_sti", "x87_fsub_st_sti", "x87_fsubr_st_sti",
     "x87_fmul_st_sti", "x87_fdiv_st_sti", "x87_fdivr_st_sti"} \cup ArithMemOps

ArithPopOps ==
    {"x87_faddp", "x87_fsubp", "x87_fsubrp", "x87_fmulp", "x87_fdivp",
     "x87_fdivrp"}

\* the physical slot the observed arithmetic handler writes
ArithDst ==
    IF last.op \in ArithSt0Ops THEN Top(last.pre)
    ELSE ST_TO_PHYS(last.pre, last.arg)

\* the observed arithmetic handler had finite operands in place, so it went
\* through the precision-control switch, and committed its result
ArithSwitched ==
    /\ last.op \in RegArithOps \cup ArithMemOps
    /\ ~last.fault
    /\ last.chk = "ok"
    /\ ~X87_IS_ST_EMPTY(last.pre, 0)
    /\ ExpOf(ST(last.pre, 0)) # 32767
    /\ IF last.op \in ArithMemOps THEN ExpOf(last.opd) # 32767
       ELSE /\ ~X87_IS_ST_EMPTY(last.pre, last.arg)
            /\ ExpOf(ST(last.pre, last.arg)) # 32767

ReservedPCWritesZero ==
    (ArithSwitched /\ X87_PC(last.pre) = 1) =>
        /\ m_x87_reg[ArithDst] = fx80_zero
        /\ X87_TAG(Cur, ArithDst) =
               IF last.op \in ArithPopOps /\ last.arg = 0
               THEN X87_TW_EMPTY ELSE X87_TW_ZERO

\* C40: with the reserved precision control 01, x87_add, x87_sub, x87_mul and
\* x87_div perform no operation and return +0.0 for every pair of operands,
\* so an arithmetic handler then writes +0 tagged ZERO to its destination;
\* with PC = 00, 10 and 11 the result is the single-, double- and
\* extended-precision operation.
C40_PrecisionControl ==
    /\ CanStep => CoreByPC(Cur)
    /\ ReservedPCWritesZero

\* FADD ST,ST(1) of 1 and 0 under the reserved precision control has left +0
\* tagged ZERO in ST(0)
C40_Witness ==
    /\ last.op = "x87_fadd_st_sti"
    /\ last.arg = 1
    /\ ArithSwitched
    /\ X87_PC(last.pre) = 1
    /\ ST(last.pre, 0) = fx80_one
    /\ ST(Cur, 0) = fx80_zero
    /\ X87_TAG(Cur, Top(Cur)) = X87_TW_ZERO

=============================================================================
